---- MODULE Spec2Model ----
(***************************************************************************)
(* A model of electron-automation-core: the BrowserManager (profile        *)
(* orchestration), the ProfileManager (session partitions), the            *)
(* GridManager (layout of BrowserViews inside the host window), and, per   *)
(* page, the shared debugger channel with the Network feature handler.     *)
(*                                                                         *)
(* Profile ids are non-empty strings in the program ('user1', 'user2',     *)
(* ...); here profile 'userK' is the number K and null is 0, so that the   *)
(* JavaScript test `if (this._maximizedId)` is `maximizedId # NULL`.       *)
(***************************************************************************)
EXTENDS Integers, Sequences, FiniteSets, Bags, TLC

(***************************************************************************)
(* Bounds of the model                                                     *)
(***************************************************************************)
NumIds == 3
MaxViews == 15
NumProfiles == 2
MaxSurfaces == 2
MaxTasks == 2
MaxCols == 3
MaxRows == 2
MaxOps == 2
MaxRegs == 3
MaxRequests == 2
MaxTime == 5
MaxTimeout == 3
MaxInterval == 2
MaxIdleTime == 2
MaxPending == 2
MaxDetachCalls == 6
MaxDlgOps == 2
MaxDlgRegs == 2
MaxNwOps == 1
MaxDownloads == 2
MaxDlRegs == 2
MaxFcRegs == 2
MaxFcEvents == 2

NULL == 0
Ids == 1..NumIds
BigIds == 1..MaxViews
ProfileIds == 1..NumProfiles

\* Host-canvas content sizes [width, height] the window takes.
\* (the second is narrower and lower than the grids the model sets).
WinSizes == {<<10, 6>>, <<2, 1>>}

VARIABLES
    \* ---- GridManager ----
    gviews,       \* _views: the tracked ids in Map insertion order
    cols,         \* _cols
    rows,         \* _rows
    maximizedId,  \* _maximizedId (NULL when none)
    resizeSub,    \* TRUE while _onResize is subscribed to the window's 'resize'
    win,          \* the window's content size, as getContentSize() returns it
    vbounds,      \* per tracked view: the bounds and auto-resize it has (a new
                  \* BrowserView has zero bounds)
    \* ---- history of the GridManager calls ----
    gop,          \* the last GridManager operation and its argument
    rt,           \* progress of a maximize / restoreGrid round trip that
                  \* starts from a non-maximized layout
    pre           \* the layout before the last maximize, kept while that
                  \* maximize or the restoreGrid right after it is the last
                  \* call; after setGrid and autoGrid, the views that were
                  \* collapsed for not fitting the grid before the call

VARIABLES
    \* ---- GridManager, continued ----
    gsid,         \* _views' values: the view (surface) registered under each id
    \* ---- BrowserManager and ProfileManager ----
    profiles,     \* BrowserManager._profiles: its ids in Map insertion order
    profSid,      \* ... and the surface { view, page } each id maps to
    pm,           \* ProfileManager._profiles: the ids it holds
    surf,         \* every BrowserView / ElectronPage created so far
    tasks,        \* the destroyProfile calls in flight (suspended at an await),
                  \* a bag: two calls may be at the same point
    cleanup,      \* the cleanup() call, if any
    \* ---- history of the BrowserManager calls ----
    lastCall,     \* the createProfile or destroyProfile call just made, with what
                  \* it returned or the log of its steps ("none" after any other step)
    handed        \* per registered id, the surface the createProfile that
                  \* created it returned

gridVars == <<gviews, gsid, cols, rows, maximizedId, resizeSub, win, vbounds, gop, rt, pre>>

mgrVars == <<profiles, profSid, pm, surf, tasks, cleanup, lastCall, handed>>

VARIABLES
    \* ---- one ElectronPage: its debugger and its Network ----
    attachments,      \* the attachments of webContents.debugger
    netEnabled,       \* Network._enabled
    interceptHandler, \* Network._interceptHandler (NULL when none)
    onRequestPaused,  \* Network._onRequestPaused: the registration it holds
    listeners,        \* the 'message' listeners of the debugger that the
                      \* Network added, in the order they are called
    fetchOn,          \* TRUE while the Fetch domain is enabled in the debugger
    nops,             \* the Network calls in flight (suspended at an await), a bag
    nregs,            \* the number of listeners registered so far
    reqs,             \* per request id: whether it was paused, and the
                      \* commands issued for it, each with the registration
                      \* that issued it
    callbacks,        \* the interceptRequests listener calls awaiting the handler
    netDestroyed,     \* ElectronPage._destroyed
    \* ---- history ----
    lastAttach        \* the safeAttachDebugger call of the last step, if any

netVars == <<attachments, netEnabled, interceptHandler, onRequestPaused, listeners,
             fetchOn, nops, nregs, reqs, callbacks, netDestroyed, lastAttach>>

VARIABLES
    \* ---- the ProfileManager used on its own ----
    pmCalls,          \* its destroy calls in flight, each suspended at the
                      \* await of one of the three clearing calls, a bag
    pmCleanup,        \* its cleanup() call, if any
    pmLast            \* history: the destroy call that has just returned, with
                      \* the clearing calls it made and the one that failed

pmVars == <<pmCalls, pmCleanup, pmLast>>

VARIABLES
    \* ---- the debugger of one content context, used through
    \* ---- safeDetachDebugger ----
    chanSt            \* the context (alive or destroyed), whether its debugger
                      \* is attached, the safeDetachDebugger calls made and
                      \* the detach() calls issued; and, as history, the
                      \* last safeDetachDebugger call with the state it found

VARIABLES
    \* ---- one DialogHandler and the debugger it uses ----
    dAttached,        \* the debugger is attached
    dPageOn,          \* the Page domain is enabled in the debugger
    dEnabled,         \* DialogHandler._enabled
    dHandler,         \* DialogHandler._handler is set
    dOpts,            \* DialogHandler._defaultOptions
    dOnDialog,        \* DialogHandler._onDialog: the registration it holds
    dListeners,       \* the 'message' listeners of the debugger that the
                      \* DialogHandler added, in the order they are called
    dRegs,            \* the number of listeners registered so far
    dOps,             \* the enable() calls in flight (suspended at an await), a bag
    dialog,           \* the dialog of the page, if one was opened: its
                      \* type and the Page.handleJavaScriptDialog commands
                      \* issued for it
    dCallbacks,       \* the listener calls awaiting the handler
    dLast             \* history: the enable() or disable() that has just returned

dlgVars == <<dAttached, dPageOn, dEnabled, dHandler, dOpts, dOnDialog,
             dListeners, dRegs, dOps, dialog, dCallbacks, dLast>>

VARIABLE
    \* ---- the interceptRequests listener of one Network, call by call ----
    icp               \* _interceptHandler is set, the listener is registered,
                      \* an interceptRequests call is in flight, and per
                      \* request: where the listener call for it stands and
                      \* the resolution commands issued for it

VARIABLE
    \* ---- Network.enable() and Network.disable() on the debugger of the
    \*      DialogHandler, whose attach may fail ----
    nw                \* Network._enabled, the Network domain of the debugger,
                      \* the calls in flight, the listeners the calls added,
                      \* and the call that has just returned

VARIABLE
    \* ---- one DownloadManager ----
    dl                \* _enabled, _handler, _onWillDownload, the
                      \* 'will-download' listeners on the session,
                      \* _downloadCounter, _downloads, the download items of
                      \* the session, and the call that has just returned

VARIABLE
    \* ---- one internal event callback at a time, from its call to its end ----
    cbk                \* the event, where the callback stands, what the user's
                      \* handler and the commands did, what the callback
                      \* decided, and whether it raised

VARIABLE
    \* ---- one ElectronPage: its own listeners and its destroy() ----
    pg                \* _destroyed, the did-finish-load and
                      \* render-process-gone listeners, _fileChooserListener,
                      \* the file-chooser listeners on the debugger, and the
                      \* interceptFileChooser call in flight

featVars == <<chanSt, dlgVars, icp, nw, dl, cbk, pg>>

VARIABLES
    \* ---- the waits of one page ----
    clock,              \* the clock, as Date.now() reads it, in time units
    pollSt,           \* the poll call, if any: where it stands, its
                      \* arguments, the outcomes of the attempts so far, and
                      \* what it settled with
    navSt,            \* the waitForNavigation call, if any: its promise, its
                      \* done flag, its timer, the listeners it has on the
                      \* webContents; and, as history, the removeListener and
                      \* resolve / reject calls it made and the first event
                      \* that occurred after the call
    idleSt            \* the waitForNetworkIdle call, if any: its promise, its
                      \* done flag and pending count, its two timers, the
                      \* listeners it has on the webContents; and, as
                      \* history, its resolve calls and the path it took

waitVars == <<clock, pollSt, navSt, idleSt>>

\* What a step of one wait leaves alone.
pollOthers == <<gridVars, mgrVars, netVars, pmVars, featVars, navSt, idleSt>>
navOthers == <<gridVars, mgrVars, netVars, pmVars, featVars, pollSt, idleSt>>
idleOthers == <<gridVars, mgrVars, netVars, pmVars, featVars, pollSt, navSt>>

\* What a step of the components below leaves alone.
others == <<gridVars, mgrVars, netVars, waitVars, pmVars>>

chanOthers == <<others, dlgVars, icp, nw, dl, cbk, pg>>
dlgOthers == <<others, chanSt, icp, nw, dl, cbk, pg>>
icpOthers == <<others, chanSt, dlgVars, nw, dl, cbk, pg>>
dlOthers == <<others, chanSt, dlgVars, icp, nw, cbk, pg>>
evOthers == <<others, chanSt, dlgVars, icp, nw, dl, pg>>
\* dAttached is left to the actions of the Network calls themselves
nwOthers == <<others, chanSt, icp, dl, cbk, pg, dPageOn, dEnabled, dHandler, dOpts,
              dOnDialog, dListeners, dRegs, dOps, dialog, dCallbacks, dLast>>

\* What a step of the ProfileManager on its own leaves alone.
pmOthers == <<gridVars, netVars, waitVars, featVars, profiles, profSid, surf, tasks,
              cleanup, lastCall, handed>>

vars == <<gridVars, mgrVars, netVars, waitVars, pmVars, featVars>>

(***************************************************************************)
(* Helpers on sequences                                                    *)
(***************************************************************************)
Range(s) == {s[i] : i \in 1..Len(s)}

IndexOf(s, x) == CHOOSE i \in 1..Len(s) : s[i] = x

Without(s, x) == SelectSeq(s, LAMBDA y : y # x)

\* Map.prototype.set on the key order: a present key keeps its position.
MapSet(s, x) == IF x \in Range(s) THEN s ELSE Append(s, x)

(***************************************************************************)
(* GridManager                                                             *)
(***************************************************************************)
ZeroView == [x |-> 0, y |-> 0, width |-> 0, height |-> 0, autoResize |-> FALSE]

NoSnap == [taken |-> FALSE]

\* A variant of AutoGridDims whose last two rows are off: 9 views fall in
\* the last row, which gives 4 x 3.
AutoGridDimsMut(count) ==
    IF count <= 1 THEN <<1, 1>>
    ELSE IF count <= 2 THEN <<2, 1>>
    ELSE IF count <= 4 THEN <<2, 2>>
    ELSE IF count <= 6 THEN <<3, 2>>
    ELSE IF count < 9 THEN <<3, 3>>
    ELSE <<4, 3>>

\* autoGrid: (cols, rows) from the number of tracked views.
AutoGridDims(count) ==
    IF count <= 1 THEN <<1, 1>>
    ELSE IF count <= 2 THEN <<2, 1>>
    ELSE IF count <= 4 THEN <<2, 2>>
    ELSE IF count <= 6 THEN <<3, 2>>
    ELSE IF count <= 9 THEN <<3, 3>>
    ELSE <<5, 2>>

\* A variant of MaximizedCell that leaves the other views at full size
\* under the maximized one instead of collapsing them.
MaximizedCellMut(id, m, w) ==
    [x |-> 0, y |-> 0, width |-> w[1], height |-> w[2], autoResize |-> id = m]

\* The bounds _applyLayout gives one tracked view in the maximized branch.
MaximizedCell(id, m, w) ==
    IF id = m
    THEN [x |-> 0, y |-> 0, width |-> w[1], height |-> w[2], autoResize |-> TRUE]
    ELSE ZeroView

\* A variant of GridCell that places the views column-major.
GridCellMut(index, c, r, w) ==
    IF index >= c * r
    THEN ZeroView
    ELSE LET cellWidth == w[1] \div c
             cellHeight == w[2] \div r
         IN [x |-> (index \div r) * cellWidth,
             y |-> (index % r) * cellHeight,
             width |-> cellWidth,
             height |-> cellHeight,
             autoResize |-> FALSE]

\* A variant of GridCell that wraps the views that do not fit around to
\* the first cells instead of collapsing them.
GridCellWrapMut(index, c, r, w) ==
    LET cellWidth == IF c = 0 THEN 0 ELSE w[1] \div c
        cellHeight == IF r = 0 THEN 0 ELSE w[2] \div r
        i == IF c * r = 0 THEN 0 ELSE index % (c * r)
    IN [x |-> IF c = 0 THEN 0 ELSE (i % c) * cellWidth,
        y |-> IF c = 0 THEN 0 ELSE (i \div c) * cellHeight,
        width |-> cellWidth,
        height |-> cellHeight,
        autoResize |-> FALSE]

\* A variant of GridCell whose cell size is rounded up instead of down.
GridCellCeilMut(index, c, r, w) ==
    IF index >= c * r
    THEN ZeroView
    ELSE LET cellWidth == (w[1] + c - 1) \div c
             cellHeight == (w[2] + r - 1) \div r
         IN [x |-> (index % c) * cellWidth,
             y |-> (index \div c) * cellHeight,
             width |-> cellWidth,
             height |-> cellHeight,
             autoResize |-> FALSE]

\* The bounds _applyLayout gives the view at position index (from 0) in the
\* grid branch.
GridCell(index, c, r, w) ==
    IF index >= c * r
    THEN ZeroView
    ELSE LET cellWidth == w[1] \div c
             cellHeight == w[2] \div r
         IN [x |-> (index % c) * cellWidth,
             y |-> (index \div c) * cellHeight,
             width |-> cellWidth,
             height |-> cellHeight,
             autoResize |-> FALSE]

\* _applyLayout: the bounds of every tracked view after a recompute. (b is
\* the bounds before it: the loop sets every tracked view, and the engine
\* touches no other.)
ApplyLayout(vs, c, r, m, w, b) ==
    [id \in Range(vs) |->
        IF m # NULL THEN MaximizedCell(id, m, w)
        ELSE GridCell(IndexOf(vs, id) - 1, c, r, w)]

\* The layout is current: every tracked view has the bounds a recompute of
\* the present state gives it.
LayoutCurrent ==
    \A id \in Range(gviews) :
        vbounds[id] = ApplyLayout(gviews, cols, rows, maximizedId, win, vbounds)[id]

GridInit ==
    /\ gviews = <<>>
    /\ cols = 2
    /\ rows = 2
    /\ maximizedId = NULL
    /\ resizeSub = TRUE
    /\ win \in WinSizes
    /\ gsid = <<>>
    /\ vbounds = <<>>
    /\ gop = [op |-> "new", id |-> NULL]
    /\ rt = "none"
    /\ pre = NoSnap

\* Map.prototype.set on the values: f with key k mapped to v.
MapPut(f, k, v) == [x \in DOMAIN f \cup {k} |-> IF x = k THEN v ELSE f[x]]

\* Map.prototype.delete on the values.
MapDel(f, k) == [x \in DOMAIN f \ {k} |-> f[x]]

\* The views of vs that are collapsed because they do not fit the grid.
OverflowedIn(vs, c, r, m, vb) ==
    IF m # NULL THEN {}
    ELSE {id \in Range(vs) : /\ IndexOf(vs, id) - 1 >= c * r
                              /\ vb[id].width = 0
                              /\ vb[id].height = 0}

Overflowed == OverflowedIn(gviews, cols, rows, maximizedId, vbounds)

\* The bounds after addView(id, view): a view that was not the one tracked
\* under id comes with the zero bounds of a new BrowserView.
AddViewBounds(vs, gs, vb, id, view) ==
    IF id \in Range(vs) /\ gs[id] = view THEN vb ELSE MapPut(vb, id, ZeroView)

\* addView(profileId, view)
GM_AddView(id, view) ==
    /\ resizeSub
    /\ gviews' = MapSet(gviews, id)
    /\ gsid' = MapPut(gsid, id, view)
    /\ vbounds' = AddViewBounds(gviews, gsid, vbounds, id, view)
    /\ gop' = [op |-> "addView", id |-> id]
    /\ rt' = "none"
    /\ pre' = NoSnap
    /\ UNCHANGED <<cols, rows, maximizedId, resizeSub, win>>

\* removeView(profileId)
GM_RemoveView(id) ==
    /\ resizeSub
    /\ gviews' = Without(gviews, id)
    /\ maximizedId' = IF maximizedId = id THEN NULL ELSE maximizedId
    /\ gsid' = MapDel(gsid, id)
    /\ vbounds' = MapDel(vbounds, id)
    /\ gop' = [op |-> "removeView", id |-> id]
    /\ rt' = "none"
    /\ pre' = NoSnap
    /\ UNCHANGED <<cols, rows, resizeSub, win>>

\* setGrid(cols, rows)
GM_SetGrid(c, r) ==
    /\ resizeSub
    /\ cols' = c
    /\ rows' = r
    /\ maximizedId' = NULL
    /\ vbounds' = ApplyLayout(gviews, c, r, NULL, win, vbounds)
    /\ gop' = [op |-> "setGrid", id |-> NULL]
    /\ rt' = "none"
    /\ pre' = [taken |-> FALSE, hidden |-> Overflowed]
    /\ UNCHANGED <<gsid, gviews, resizeSub, win>>

\* autoGrid()
GM_AutoGrid ==
    /\ resizeSub
    /\ LET d == AutoGridDims(Len(gviews))
       IN /\ cols' = d[1]
          /\ rows' = d[2]
          /\ maximizedId' = NULL
          /\ vbounds' = ApplyLayout(gviews, d[1], d[2], NULL, win, vbounds)
    /\ gop' = [op |-> "autoGrid", id |-> NULL]
    /\ rt' = "none"
    /\ pre' = [taken |-> FALSE, hidden |-> Overflowed]
    /\ UNCHANGED <<gsid, gviews, resizeSub, win>>

\* The id maximize(profileId) leaves in _maximizedId.
MaximizeTarget(id, vs, m) == IF id \in Range(vs) THEN id ELSE m

\* maximize(profileId): returns early, without a recompute, for an untracked id.
GM_Maximize(id) ==
    /\ resizeSub
    /\ maximizedId' = MaximizeTarget(id, gviews, maximizedId)
    /\ vbounds' = IF id \in Range(gviews)
                  THEN ApplyLayout(gviews, cols, rows, maximizedId', win, vbounds)
                  ELSE vbounds
    /\ gop' = [op |-> "maximize", id |-> id]
    /\ rt' = IF maximizedId = NULL THEN "maximized" ELSE "none"
    /\ pre' = [taken |-> TRUE, vbounds |-> vbounds, cols |-> cols, rows |-> rows,
               maximizedId |-> maximizedId, current |-> LayoutCurrent,
               tracked |-> id \in Range(gviews)]
    /\ UNCHANGED <<gsid, gviews, cols, rows, resizeSub, win>>

\* A variant of restoreGrid that clears _maximizedId and forgets to recompute.
GM_RestoreGridMut ==
    /\ resizeSub
    /\ maximizedId' = NULL
    /\ gop' = [op |-> "restoreGrid", id |-> NULL]
    /\ rt' = IF rt = "maximized" THEN "restored" ELSE "none"
    /\ pre' = IF rt = "maximized" THEN pre ELSE NoSnap
    /\ UNCHANGED <<gsid, gviews, cols, rows, resizeSub, win, vbounds>>

\* restoreGrid()
GM_RestoreGrid ==
    /\ resizeSub
    /\ maximizedId' = NULL
    /\ vbounds' = ApplyLayout(gviews, cols, rows, NULL, win, vbounds)
    /\ gop' = [op |-> "restoreGrid", id |-> NULL]
    /\ rt' = IF rt = "maximized" THEN "restored" ELSE "none"
    /\ pre' = IF rt = "maximized" THEN pre ELSE NoSnap
    /\ UNCHANGED <<gsid, gviews, cols, rows, resizeSub, win>>

\* The host window is resized; while subscribed, _onResize recomputes.
WinResize(w) ==
    /\ w # win
    /\ win' = w
    /\ vbounds' = IF resizeSub
                  THEN ApplyLayout(gviews, cols, rows, maximizedId, w, vbounds)
                  ELSE vbounds
    /\ gop' = [op |-> "resize", id |-> NULL]
    /\ rt' = "none"
    /\ pre' = NoSnap
    /\ UNCHANGED <<gsid, gviews, cols, rows, maximizedId, resizeSub>>

\* destroy(): the engine is not used afterwards.
GM_Destroy ==
    /\ resizeSub
    /\ resizeSub' = FALSE
    /\ gviews' = <<>>
    /\ gsid' = <<>>
    /\ vbounds' = <<>>
    /\ gop' = [op |-> "destroy", id |-> NULL]
    /\ rt' = "none"
    /\ pre' = NoSnap
    /\ UNCHANGED <<cols, rows, maximizedId, win>>

(***************************************************************************)
(* ElectronPage and the debugger channel, as the BrowserManager sees them  *)
(***************************************************************************)
\* A new BrowserView with its ElectronPage: attached to the window, the
\* debugger detached, the content context alive.
NewSurface(id) ==
    [id |-> id, inWindow |-> TRUE, pageDestroyed |-> FALSE, chan |-> FALSE,
     ctx |-> "alive"]

\* A variant of DetachRun that calls detach() without asking isAttached().
DetachRunMut(sv, how) ==
    IF sv.ctx # "alive"
    THEN [sv |-> sv, issued |-> TRUE, threw |-> TRUE, raised |-> FALSE]
    ELSE [sv |-> [sv EXCEPT !.chan = FALSE], issued |-> TRUE, threw |-> ~sv.chan,
          raised |-> FALSE]

\* One run of safeDetachDebugger on a context with a debugger: what becomes
\* of them, whether detach() was issued, whether a call threw inside the try
\* block, and whether the function raised. On a context that is not alive
\* either the isAttached() query throws (how = "query") or it answers and
\* detach() throws (how = "detach"); the catch swallows both.
DetachRun(sv, how) ==
    IF sv.ctx # "alive"
    THEN [sv |-> sv, issued |-> how = "detach", threw |-> TRUE, raised |-> FALSE]
    ELSE IF sv.chan
         THEN [sv |-> [sv EXCEPT !.chan = FALSE], issued |-> TRUE,
               threw |-> FALSE, raised |-> FALSE]
         ELSE [sv |-> sv, issued |-> FALSE, threw |-> FALSE, raised |-> FALSE]

\* safeDetachDebugger: detaches an attached debugger; on a closed context the
\* isAttached() query throws and the catch swallows it.
SafeDetachDebugger(sv) == DetachRun(sv, "query").sv

\* ElectronPage.destroy(): once only; disposes the feature handlers and
\* detaches the debugger.
PageDestroyed(sv) ==
    IF sv.pageDestroyed THEN sv
    ELSE SafeDetachDebugger([sv EXCEPT !.pageDestroyed = TRUE])

(***************************************************************************)
(* ProfileManager                                                          *)
(***************************************************************************)
\* create(profileId, options): sets the entry, whether or not one exists.
PM_Create(p, id) == p \cup {id}

\* A variant of PM_Delete that leaves the entry in the registry.
PM_DeleteMut(p, id) == p

\* The end of destroy(profileId): the entry is deleted.
PM_Delete(p, id) == p \ {id}

(***************************************************************************)
(* BrowserManager.destroyProfile: the synchronous part, up to its await.   *)
(* A world w holds what the steps read and write: the surface sv of the    *)
(* entry, the GridManager maps, and the log of the steps of this call,     *)
(* each with the state of the debugger when it starts and whether it threw.*)
(***************************************************************************)
Logged(w, step, threw) ==
    Append(w.log, [step |-> step, chan |-> w.sv.chan, threw |-> threw])

\* page.destroy()
StepPageDestroy(w) ==
    [w EXCEPT !.sv = PageDestroyed(w.sv),
              !.log = Logged(w, "pageDestroy", FALSE)]

\* this._gridManager.removeView(profileId)
StepRemoveView(w, id) ==
    [w EXCEPT !.gv = Without(w.gv, id),
              !.gs = MapDel(w.gs, id),
              !.vb = MapDel(w.vb, id),
              !.mx = IF w.mx = id THEN NULL ELSE w.mx,
              !.log = Logged(w, "removeView", FALSE)]

\* this._mainWindow.removeBrowserView(view), in its try/catch: when the call
\* throws, the catch swallows that and the view stays where it is.
StepRemoveBrowserView(w, fails) ==
    [w EXCEPT !.sv.inWindow = IF fails THEN w.sv.inWindow ELSE FALSE,
              !.log = Logged(w, "removeBrowserView", fails)]

\* view.webContents.close(), in its try/catch: when the call throws, the
\* catch swallows that and the context stays as it is.
StepClose(w, fails) ==
    [w EXCEPT !.sv.ctx = IF fails THEN w.sv.ctx ELSE "closed",
              !.log = Logged(w, "close", fails)]

\* this._profileManager.destroy(profileId) is called
StepSessionDestroy(w) ==
    [w EXCEPT !.log = Logged(w, "sessionDestroy", FALSE)]

\* Lines 92..112 of destroyProfile, in their order.
TeardownSync(w, id, rmFails, closeFails) ==
    StepSessionDestroy(
        StepClose(
            StepRemoveBrowserView(
                StepRemoveView(
                    StepPageDestroy(w), id), rmFails), closeFails))

(***************************************************************************)
(* The debugger channel of one page: utils.js                              *)
(***************************************************************************)
NoAttach == [called |-> FALSE]

\* webContents.debugger.attach(version): Electron throws when a debugger is
\* attached already.
DebuggerAttach(n) ==
    IF n > 0 THEN [n |-> n, threw |-> TRUE] ELSE [n |-> n + 1, threw |-> FALSE]

\* A variant of safeAttachDebugger without the isAttached() test.
SafeAttachDebuggerMut(n) ==
    LET a == DebuggerAttach(n)
    IN [n |-> a.n,
        att |-> [called |-> TRUE, was |-> n > 0, phys |-> ~a.threw,
                 ok |-> ~a.threw]]

\* safeAttachDebugger(webContents): the attachments afterwards, and what the
\* call found, did and returned.
SafeAttachDebugger(n) ==
    IF n > 0
    THEN [n |-> n,
          att |-> [called |-> TRUE, was |-> TRUE, phys |-> FALSE, ok |-> TRUE]]
    ELSE LET a == DebuggerAttach(n)
         IN [n |-> a.n,
             att |-> [called |-> TRUE, was |-> FALSE, phys |-> ~a.threw,
                      ok |-> ~a.threw]]

\* cdpSend(webContents, method, params): attaches first when the debugger is
\* not attached, then sends the command.
CdpSend(n) ==
    IF n > 0 THEN [n |-> n, att |-> NoAttach] ELSE SafeAttachDebugger(n)

(***************************************************************************)
(* Network: Waiter.js                                                      *)
(***************************************************************************)
RequestIds == 1..MaxRequests

\* What the handler given to interceptRequests comes back with.
HandlerOutcomes == {"nothing", "continue", "block", "modify", "other", "throw"}

NoRequest == [paused |-> FALSE, intercepted |-> FALSE, cmds |-> <<>>]

NetInit ==
    /\ attachments = 0
    /\ netEnabled = FALSE
    /\ interceptHandler = NULL
    /\ onRequestPaused = NULL
    /\ listeners = <<>>
    /\ fetchOn = FALSE
    /\ nops = EmptyBag
    /\ nregs = 0
    /\ reqs = [r \in RequestIds |-> NoRequest]
    /\ callbacks = {}
    /\ netDestroyed = FALSE
    /\ lastAttach = NoAttach

NetOps == BagToSet(nops)

NetOpCount == BagCardinality(nops)

\* The start of enable(), run by the call op: nothing when _enabled is set,
\* else safeAttachDebugger and the first await.
EnableSync(op) ==
    IF netEnabled
    THEN /\ nops' = IF op = "enable" THEN nops
                    ELSE nops (+) SetToBag({[op |-> op, pc |-> "afterEnable"]})
         /\ lastAttach' = NoAttach
         /\ UNCHANGED attachments
    ELSE LET a == SafeAttachDebugger(attachments)
         IN /\ attachments' = a.n
            /\ lastAttach' = a.att
            /\ nops' = nops (+) SetToBag({[op |-> op, pc |-> "netEnable"]})

\* enable(), blockResourceTypes(typesArray) or interceptRequests(handler) is
\* called and runs to its first await.
NetCall(op) ==
    /\ NetOpCount < MaxOps
    /\ EnableSync(op)
    /\ UNCHANGED <<netEnabled, interceptHandler, onRequestPaused, listeners,
                   fetchOn, nregs, reqs, callbacks, netDestroyed>>

\* did-finish-load with disableImages set: _applyPerformanceOptions calls
\* blockResourceTypes(['Image', 'Media']) unless the page is destroyed.
LoadFinish ==
    /\ ~netDestroyed
    /\ NetCall("block")

\* A variant of the removal of the old listener that removes nothing.
RemoveOldListenerMut(ls, cur) == ls

\* if (this._onRequestPaused) removeListener('message', this._onRequestPaused)
RemoveOldListener(ls, cur) ==
    IF cur # NULL THEN SelectSeq(ls, LAMBDA l : l.reg # cur) ELSE ls

\* A call in flight resumes after its await and runs to the next one, or to
\* its end.
NetStep(t) ==
    LET rest == nops (-) SetToBag({t})
        goes(pc) == rest (+) SetToBag({[t EXCEPT !.pc = pc]})
        c == CdpSend(attachments)
    IN \/ /\ t.pc = "netEnable"
          \* enable(): cdpSend('Network.enable')
          /\ attachments' = c.n
          /\ lastAttach' = c.att
          /\ nops' = goes("setEnabled")
          /\ UNCHANGED <<netEnabled, interceptHandler, onRequestPaused,
                         listeners, fetchOn, nregs>>
       \/ /\ t.pc = "setEnabled"
          \* enable(): this._enabled = true, and enable() returns
          /\ netEnabled' = TRUE
          /\ nops' = IF t.op = "enable" THEN rest ELSE goes("afterEnable")
          /\ lastAttach' = NoAttach
          /\ UNCHANGED <<attachments, interceptHandler, onRequestPaused,
                         listeners, fetchOn, nregs>>
       \/ /\ t.pc = "afterEnable" /\ t.op = "block"
          \* cdpSend('Network.setBlockedURLs')
          /\ attachments' = c.n
          /\ lastAttach' = c.att
          /\ nops' = goes("fetchEnable")
          /\ UNCHANGED <<netEnabled, interceptHandler, onRequestPaused,
                         listeners, fetchOn, nregs>>
       \/ /\ \/ t.pc = "fetchEnable"
             \/ t.pc = "afterEnable" /\ t.op = "intercept"
          \* interceptRequests sets _interceptHandler; cdpSend('Fetch.enable')
          /\ interceptHandler' = IF t.op = "intercept" THEN 1
                                 ELSE interceptHandler
          /\ attachments' = c.n
          /\ lastAttach' = c.att
          /\ fetchOn' = TRUE
          /\ nops' = goes("register")
          /\ UNCHANGED <<netEnabled, onRequestPaused, listeners, nregs>>
       \/ /\ t.pc = "register"
          \* the old listener is removed, the new one is added
          /\ nregs < MaxRegs
          /\ listeners' = Append(RemoveOldListener(listeners, onRequestPaused),
                                 [reg |-> nregs + 1, kind |-> t.op])
          /\ onRequestPaused' = nregs + 1
          /\ nregs' = nregs + 1
          /\ nops' = rest
          /\ lastAttach' = NoAttach
          /\ UNCHANGED <<attachments, netEnabled, interceptHandler, fetchOn>>

NetResume(t) ==
    /\ NetStep(t)
    /\ UNCHANGED <<reqs, callbacks, netDestroyed>>

\* What a listener does with Fetch.requestPaused before it returns or awaits:
\* the blockResourceTypes listener issues failRequest or continueRequest
\* (blockCmd, by the resource type); the interceptRequests listener issues
\* continueRequest when there is no handler, else it calls the handler.
SyncCommands(ls, blockCmd) ==
    LET now == SelectSeq(ls, LAMBDA l : l.kind = "block"
                                        \/ interceptHandler = NULL)
    IN [i \in 1..Len(now) |->
           [cmd |-> IF now[i].kind = "block" THEN blockCmd
                    ELSE "continueRequest",
            reg |-> now[i].reg]]

\* The debugger emits Fetch.requestPaused for request r: every listener is
\* called with it.
RequestPaused(r, blockCmd) ==
    /\ attachments > 0
    /\ fetchOn
    /\ ~reqs[r].paused
    /\ reqs' = [reqs EXCEPT ![r] =
                   [paused |-> TRUE,
                    intercepted |-> \E l \in Range(listeners) :
                                        l.kind = "intercept",
                    cmds |-> SyncCommands(listeners, blockCmd)]]
    /\ callbacks' = callbacks \cup
           {[req |-> r, reg |-> l.reg] :
               l \in {x \in Range(listeners) : /\ x.kind = "intercept"
                                               /\ interceptHandler # NULL}}
    /\ lastAttach' = NoAttach
    /\ UNCHANGED <<attachments, netEnabled, interceptHandler, onRequestPaused,
                   listeners, fetchOn, nops, nregs, netDestroyed>>

\* The command the interceptRequests listener issues for what the handler
\* came back with; "none" when it issues none.
InterceptCommand(outcome) ==
    IF outcome \in {"nothing", "continue"} THEN "continueRequest"
    ELSE IF outcome = "block" THEN "failRequest"
    ELSE IF outcome = "throw" THEN "continueRequest"
    ELSE "none"

\* The handler settles and the listener call cb goes on to its end.
CallbackResume(cb, outcome) ==
    LET cmd == InterceptCommand(outcome)
        c == CdpSend(attachments)
    IN /\ callbacks' = callbacks \ {cb}
       /\ IF cmd = "none"
          THEN /\ lastAttach' = NoAttach
               /\ UNCHANGED <<attachments, reqs>>
          ELSE /\ attachments' = c.n
               /\ lastAttach' = c.att
               /\ reqs' = [reqs EXCEPT ![cb.req].cmds =
                              Append(@, [cmd |-> cmd, reg |-> cb.reg])]
       /\ UNCHANGED <<netEnabled, interceptHandler, onRequestPaused, listeners,
                      fetchOn, nops, nregs, netDestroyed>>

\* Network.destroy()
NetworkDestroy(ls, cur) ==
    [listeners |-> RemoveOldListener(ls, cur), onRequestPaused |-> NULL,
     interceptHandler |-> NULL, netEnabled |-> FALSE]

\* ElectronPage.destroy(): once only; Network.destroy(), then the debugger is
\* detached, and the domains enabled in it are gone with it.
NetPageDestroy ==
    /\ ~netDestroyed
    /\ netDestroyed' = TRUE
    /\ LET d == NetworkDestroy(listeners, onRequestPaused)
           sv == SafeDetachDebugger([ctx |-> "alive", chan |-> attachments > 0])
       IN /\ listeners' = d.listeners
          /\ onRequestPaused' = d.onRequestPaused
          /\ interceptHandler' = d.interceptHandler
          /\ netEnabled' = d.netEnabled
          /\ attachments' = IF sv.chan THEN attachments ELSE 0
    /\ fetchOn' = FALSE
    /\ lastAttach' = NoAttach
    /\ UNCHANGED <<nops, nregs, reqs, callbacks>>

NoCall == [op |-> "none"]

\* cleanup(): where it stands, the ids its loop still has to visit, and the
\* number of profiles it has torn down.
IdleCleanup == [pc |-> "idle", ids |-> <<>>, torn |-> 0]

MgrInit ==
    /\ profiles = <<>>
    /\ profSid = <<>>
    /\ pm = {}
    /\ surf = <<>>
    /\ tasks = EmptyBag
    /\ cleanup = IdleCleanup
    /\ lastCall = NoCall
    /\ handed = <<>>

(***************************************************************************)
(* ProfileManager.destroy and ProfileManager.cleanup, step by step         *)
(***************************************************************************)
\* The clearing calls of destroy, in the order of its try block.
SubSteps == <<"clearStorageData", "clearCache", "clearAuthCache">>

NoDestroy == [op |-> "none"]
NoPmCleanup == [pc |-> "idle", ids |-> <<>>]

PmCalls == BagToSet(pmCalls)

\* destroy(id) returns: what the caller sees, kept as history. made is the
\* number of clearing calls it made, failed the one that rejected (0: none).
DestroyReturned(id, known, made, failed) ==
    [op |-> "destroy", id |-> id, known |-> known, made |-> made,
     failed |-> failed, raised |-> FALSE]

\* destroy(id) up to its first await: an unknown id returns at once, a known
\* one calls clearStorageData and suspends. c is the bag of calls in flight,
\* p the registry.
PmDestroyStart(c, p, id, owner) ==
    IF id \notin p THEN c
    ELSE c (+) SetToBag({[id |-> id, at |-> 1, owner |-> owner]})

\* The loop of cleanup() from its test on: with ids left, destroy of the
\* first is called and awaited; an unknown id returns at once and the loop
\* goes on.
RECURSIVE PmCleanupLoop(_, _, _)
PmCleanupLoop(c, p, ids) ==
    IF ids = <<>> THEN [calls |-> c, cl |-> [pc |-> "done", ids |-> <<>>]]
    ELSE IF Head(ids) \in p
         THEN [calls |-> PmDestroyStart(c, p, Head(ids), "cleanup"),
               cl |-> [pc |-> "loop", ids |-> Tail(ids)]]
         ELSE PmCleanupLoop(c, p, Tail(ids))

\* create(profileId, options) by the application.
PmCreate(id) ==
    /\ pmCleanup.pc = "idle"
    /\ pm' = PM_Create(pm, id)
    /\ pmLast' = NoDestroy
    /\ UNCHANGED <<pmCalls, pmCleanup, pmOthers>>

\* destroy(profileId) by the application.
PmDestroy(id) ==
    /\ pmCleanup.pc = "idle"
    /\ BagCardinality(pmCalls) < MaxTasks
    /\ pmCalls' = PmDestroyStart(pmCalls, pm, id, "user")
    /\ pmLast' = IF id \in pm THEN NoDestroy ELSE DestroyReturned(id, FALSE, 0, 0)
    /\ UNCHANGED <<pm, pmCleanup, pmOthers>>

\* The clearing call that destroy call t awaits settles. When it resolved
\* and was not the last, the next one is called; otherwise (it rejected and
\* the catch took over, or it was the last) the entry is deleted and destroy
\* returns; the cleanup() that awaited it goes on with its loop.
PmSubStep(t, fails) ==
    /\ t \in PmCalls
    /\ LET rest == pmCalls (-) SetToBag({t})
       IN IF ~fails /\ t.at < Len(SubSteps)
          THEN /\ pmCalls' = rest (+) SetToBag({[t EXCEPT !.at = @ + 1]})
               /\ pmLast' = NoDestroy
               /\ UNCHANGED <<pm, pmCleanup>>
          ELSE /\ pm' = PM_Delete(pm, t.id)
               /\ pmLast' = DestroyReturned(t.id, TRUE, t.at,
                                            IF fails THEN t.at ELSE 0)
               /\ IF t.owner = "cleanup"
                  THEN LET r == PmCleanupLoop(rest, PM_Delete(pm, t.id), pmCleanup.ids)
                       IN pmCalls' = r.calls /\ pmCleanup' = r.cl
                  ELSE pmCalls' = rest /\ UNCHANGED pmCleanup
    /\ UNCHANGED pmOthers

\* cleanup() by the application: the ids are listed and the loop starts.
PmCleanupStart ==
    /\ pmCleanup.pc = "idle"
    /\ LET ids == CHOOSE q \in [1..Cardinality(pm) -> pm] : Range(q) = pm
           r == PmCleanupLoop(pmCalls, pm, ids)
       IN pmCalls' = r.calls /\ pmCleanup' = r.cl
    /\ pmLast' = NoDestroy
    /\ UNCHANGED <<pm, pmOthers>>

PmInit ==
    /\ pmCalls = EmptyBag
    /\ pmCleanup = NoPmCleanup
    /\ pmLast = NoDestroy

PmCreates == \E id \in Ids : PmCreate(id)
PmDestroys == \E id \in Ids : PmDestroy(id)
PmSubSteps == \E t \in PmCalls, fails \in BOOLEAN : PmSubStep(t, fails)

NextPM ==
    \/ PmCreates
    \/ PmDestroys
    \/ PmSubSteps
    \/ PmCleanupStart

(***************************************************************************)
(* utils.poll and the Waiter                                               *)
(***************************************************************************)
\* What a call evaluates to: a value, or "throw" when it throws or rejects.
FalsyValues == {"null", "zero"}
TruthyValues == {"true", "v1", "v2"}
Outcomes == FalsyValues \cup TruthyValues \cup {"throw"}

\* if (result): the value is truthy.
Truthy(v) == v \in TruthyValues

\* The callers of poll: the application itself with a probe of its own, and
\* the two waits of the Waiter.
PollKinds == {"poll", "waitForSelector", "waitForFunction"}

IdlePoll == [pc |-> "idle", kind |-> "poll", timeout |-> 0, interval |-> 0,
             start |-> 0, wake |-> 0, calls |-> <<>>, res |-> "null",
             err |-> "none"]

\* What the function handed to poll settles with when the call it makes
\* (the application's probe, or executeJavaScript) has outcome o.
ProbeResult(kind, o) ==
    CASE kind = "poll" -> o
      [] kind = "waitForSelector" ->
            IF o = "throw" THEN "null" ELSE IF Truthy(o) THEN "true" ELSE "null"
      [] kind = "waitForFunction" ->
            IF o = "throw" THEN "null" ELSE IF Truthy(o) THEN o ELSE "null"

\* The while test of poll at time t, up to the await of fn(): the probe is
\* invoked, or the call rejects with the timeout error.
PollLoop(p, t) ==
    IF t - p.start < p.timeout
    THEN [p EXCEPT !.pc = "probing"]
    ELSE [p EXCEPT !.pc = "rejected", !.err = "timeout"]

\* poll from the settling of fn() to the next await: a rejection leaves the
\* function, a truthy result is returned, anything else starts the sleep.
PollSettled(p, r, t) ==
    IF r = "throw" THEN [p EXCEPT !.pc = "rejected", !.err = "probe"]
    ELSE IF Truthy(r) THEN [p EXCEPT !.pc = "returned", !.res = r]
    ELSE [p EXCEPT !.pc = "sleeping", !.wake = t + p.interval]

\* poll(fn, timeout, interval), or a wait of the Waiter (interval 1 stands
\* for its 100 ms), up to its first await.
PollCall(kind, timeout, interval) ==
    /\ pollSt.pc = "idle"
    /\ pollSt' = PollLoop([IdlePoll EXCEPT !.kind = kind, !.timeout = timeout,
                                           !.interval = interval, !.start = clock],
                          clock)
    /\ UNCHANGED clock

\* The call the probe made settles with outcome o, and poll resumes.
ProbeSettle(o) ==
    /\ pollSt.pc = "probing"
    /\ pollSt' = PollSettled([pollSt EXCEPT !.calls = Append(@, o)],
                             ProbeResult(pollSt.kind, o), clock)
    /\ UNCHANGED clock

\* The timer of sleep(interval) fires, not before its time, and poll resumes
\* at the while test.
SleepDone ==
    /\ pollSt.pc = "sleeping"
    /\ clock >= pollSt.wake
    /\ pollSt' = PollLoop(pollSt, clock)
    /\ UNCHANGED clock

\* Time passes while poll is suspended.
PollTick ==
    /\ pollSt.pc \in {"probing", "sleeping"}
    /\ clock < MaxTime
    /\ clock' = clock + 1
    /\ UNCHANGED pollSt

(***************************************************************************)
(* ElectronPage.waitForNavigation                                          *)
(***************************************************************************)
NavEvents == {"did-finish-load", "did-fail-load"}

\* The error codes of did-fail-load the model draws from (-3 is the abort of
\* a redirect), and the descriptions.
FailCodes == {-3, -2}
FailDescs == {"ERR_FAILED", "ERR_TIMED_OUT"}

NoError == <<"none", 0>>

IdleNav == [pc |-> "idle", done |-> FALSE, timer |-> FALSE, deadline |-> 0,
            subs |-> {}, removed |-> [e \in NavEvents |-> 0], settles |-> 0,
            err |-> NoError, first |-> <<"none">>]

\* resolve() and reject(err): the call is counted; only the first one
\* settles the promise.
NavResolve(n) ==
    [n EXCEPT !.settles = @ + 1,
              !.pc = IF n.pc = "waiting" THEN "resolved" ELSE @]
NavReject(n, e) ==
    [n EXCEPT !.settles = @ + 1,
              !.pc = IF n.pc = "waiting" THEN "rejected" ELSE @,
              !.err = IF n.pc = "waiting" THEN e ELSE @]

\* clearTimeout(timer) and the two removeListener calls of onFinish and onFail.
NavRelease(n) ==
    [n EXCEPT !.timer = FALSE,
              !.subs = {},
              !.removed = [e \in NavEvents |-> @[e] + 1]]

\* The timer callback.
NavOnTimeout(n) ==
    IF ~n.done THEN NavResolve([n EXCEPT !.done = TRUE]) ELSE n

\* onFinish
NavOnFinish(n) ==
    IF ~n.done THEN NavResolve(NavRelease([n EXCEPT !.done = TRUE])) ELSE n

\* A variant of NavSettleFail that rejects the abort of a redirect as well.
NavSettleFailMut(n, code, desc) == NavReject(n, <<desc, code>>)

\* The last line of onFail: the abort of a redirect resolves, any other
\* code rejects with an error made of the description and the code.
NavSettleFail(n, code, desc) ==
    IF code = -3 THEN NavResolve(n) ELSE NavReject(n, <<desc, code>>)

\* onFail(_e, code, desc)
NavOnFail(n, code, desc) ==
    IF ~n.done
    THEN NavSettleFail(NavRelease([n EXCEPT !.done = TRUE]), code, desc)
    ELSE n

\* The first event after the call, kept as history.
NavFirst(n, ev) == [n EXCEPT !.first = IF @ = <<"none">> THEN ev ELSE @]

\* waitForNavigation(timeout)
NavCall(timeout) ==
    /\ navSt.pc = "idle"
    /\ navSt' = [IdleNav EXCEPT !.pc = "waiting", !.timer = TRUE,
                                !.deadline = clock + timeout, !.subs = NavEvents]
    /\ UNCHANGED <<clock, navOthers>>

\* The webContents emits did-finish-load.
NavFinishLoad ==
    /\ navSt.pc # "idle"
    /\ navSt' = NavFirst(IF "did-finish-load" \in navSt.subs
                         THEN NavOnFinish(navSt) ELSE navSt, <<"finish">>)
    /\ UNCHANGED <<clock, navOthers>>

\* The webContents emits did-fail-load with a code and a description.
NavFailLoad(code, desc) ==
    /\ navSt.pc # "idle"
    /\ navSt' = NavFirst(IF "did-fail-load" \in navSt.subs
                         THEN NavOnFail(navSt, code, desc) ELSE navSt,
                         <<"fail", code, desc>>)
    /\ UNCHANGED <<clock, navOthers>>

\* The timer of the call fires, not before its time.
NavTimer ==
    /\ navSt.timer
    /\ clock >= navSt.deadline
    /\ navSt' = NavFirst(NavOnTimeout([navSt EXCEPT !.timer = FALSE]), <<"timeout">>)
    /\ UNCHANGED <<clock, navOthers>>

\* Time passes during and after the wait.
NavTick ==
    /\ navSt.pc # "idle"
    /\ clock < MaxTime
    /\ clock' = clock + 1
    /\ UNCHANGED <<navSt, navOthers>>

NavWait == \E timeout \in 0..MaxTimeout : NavCall(timeout)
NavFail == \E code \in FailCodes, desc \in FailDescs : NavFailLoad(code, desc)

NextNav ==
    \/ NavWait
    \/ NavFinishLoad
    \/ NavFail
    \/ NavTimer
    \/ NavTick

(***************************************************************************)
(* Waiter.waitForNetworkIdle                                               *)
(***************************************************************************)
LoadEvents == {"did-start-loading", "did-stop-loading", "did-finish-load",
               "did-fail-load"}

\* timeoutId is the outer timer (armed until odeadline), timer the quiet
\* timer (armed until tdeadline). History: seen is the time of the last
\* event a listener of the wait was called with (of the call, before any), at
\* the time of the last timer callback of the wait.
NoIdleWait == [pc |-> "idle", done |-> FALSE, pending |-> 0,
               timeoutId |-> FALSE, odeadline |-> 0,
               timer |-> FALSE, tdeadline |-> 0, idleTime |-> 0,
               subs |-> {}, settles |-> 0, via |-> "none",
               seen |-> 0, at |-> 0]

\* resolve(): the call is counted; only the first one settles the promise.
IdleResolve(w, path) ==
    [w EXCEPT !.settles = @ + 1,
              !.pc = IF w.pc = "waiting" THEN "resolved" ELSE @,
              !.via = IF w.pc = "waiting" THEN path ELSE @]

\* A variant of WaitCleanup that leaves the quiet timer alone.
WaitCleanupMut(w) == [w EXCEPT !.timeoutId = FALSE, !.subs = {}]

\* cleanup(): both timers are cleared and the four listeners removed.
WaitCleanup(w) == [w EXCEPT !.timeoutId = FALSE, !.timer = FALSE, !.subs = {}]

\* A variant of OnOuterTimeout that cleans up without resolving.
OnOuterTimeoutMut(w) == WaitCleanup(w)

\* The callback of the outer timer.
OnOuterTimeout(w) ==
    LET c == WaitCleanup(w)
    IN IF ~c.done THEN IdleResolve([c EXCEPT !.done = TRUE], "timeout") ELSE c

\* A variant of CheckIdle that leaves an armed quiet timer as it is.
CheckIdleMut(w, t) ==
    IF w.done \/ w.timer THEN w
    ELSE [w EXCEPT !.timer = TRUE, !.tdeadline = t + w.idleTime]

\* checkIdle() at time t: the quiet timer is re-armed for t + idleTime.
CheckIdle(w, t) ==
    IF w.done THEN w
    ELSE [w EXCEPT !.timer = TRUE, !.tdeadline = t + w.idleTime]

\* The callback of the quiet timer.
OnQuiet(w) ==
    IF ~w.done /\ w.pending <= 0
    THEN IdleResolve(WaitCleanup([w EXCEPT !.done = TRUE]), "quiet")
    ELSE w

\* A variant of OnStart that leaves the quiet timer armed.
OnStartMut(w) == [w EXCEPT !.pending = @ + 1]

\* onStart
OnStart(w) == [w EXCEPT !.pending = @ + 1, !.timer = FALSE]

\* A variant of OnFinish that does not call checkIdle().
OnFinishMut(w, t) == [w EXCEPT !.pending = IF @ - 1 > 0 THEN @ - 1 ELSE 0]

\* onFinish at time t
OnFinish(w, t) ==
    CheckIdle([w EXCEPT !.pending = IF @ - 1 > 0 THEN @ - 1 ELSE 0], t)

\* waitForNetworkIdle(timeout, idleTime)
IdleCall(timeout, idleTime) ==
    /\ idleSt.pc = "idle"
    /\ idleSt' = CheckIdle([NoIdleWait EXCEPT !.pc = "waiting",
                                              !.timeoutId = TRUE,
                                              !.odeadline = clock + timeout,
                                              !.idleTime = idleTime,
                                              !.subs = LoadEvents,
                                              !.seen = clock],
                           clock)
    /\ UNCHANGED <<clock, idleOthers>>

\* The webContents emits did-start-loading.
IdleLoadStart ==
    /\ idleSt.pc # "idle"
    /\ idleSt.pending < MaxPending
    /\ idleSt' = IF "did-start-loading" \in idleSt.subs
                 THEN [OnStart(idleSt) EXCEPT !.seen = clock] ELSE idleSt
    /\ UNCHANGED <<clock, idleOthers>>

\* The webContents emits did-stop-loading, did-finish-load or did-fail-load.
IdleLoadEnd(ev) ==
    /\ idleSt.pc # "idle"
    /\ idleSt' = IF ev \in idleSt.subs
                 THEN [OnFinish(idleSt, clock) EXCEPT !.seen = clock] ELSE idleSt
    /\ UNCHANGED <<clock, idleOthers>>

\* The quiet timer fires.
IdleQuietTimer ==
    /\ idleSt.timer
    /\ clock >= idleSt.tdeadline
    /\ idleSt' = OnQuiet([idleSt EXCEPT !.timer = FALSE, !.at = clock])
    /\ UNCHANGED <<clock, idleOthers>>

\* The outer timer fires.
IdleOuterTimer ==
    /\ idleSt.timeoutId
    /\ clock >= idleSt.odeadline
    /\ idleSt' = OnOuterTimeout([idleSt EXCEPT !.timeoutId = FALSE, !.at = clock])
    /\ UNCHANGED <<clock, idleOthers>>

\* A timer of the wait is due.
IdleTimerDue ==
    \/ idleSt.timer /\ clock >= idleSt.tdeadline
    \/ idleSt.timeoutId /\ clock >= idleSt.odeadline

\* Time passes during and after the wait; a timer that is due fires before
\* the clock moves on.
IdleTick ==
    /\ idleSt.pc # "idle"
    /\ ~IdleTimerDue
    /\ clock < MaxTime
    /\ clock' = clock + 1
    /\ UNCHANGED <<idleSt, idleOthers>>

IdleWait ==
    \E timeout \in 0..MaxTimeout, idleTime \in 0..MaxIdleTime :
        IdleCall(timeout, idleTime)
IdleLoadEnds == \E ev \in LoadEvents \ {"did-start-loading"} : IdleLoadEnd(ev)

NextIdle ==
    \/ IdleWait
    \/ IdleLoadStart
    \/ IdleLoadEnds
    \/ IdleQuietTimer
    \/ IdleOuterTimer
    \/ IdleTick

WaitInit ==
    /\ clock = 0
    /\ pollSt = IdlePoll
    /\ navSt = IdleNav
    /\ idleSt = NoIdleWait

(***************************************************************************)
(* The debugger of one content context and safeDetachDebugger              *)
(***************************************************************************)
NoDetach == [called |-> FALSE]

ChanInit ==
    chanSt = [ctx |-> "alive", chan |-> FALSE, calls |-> 0, physical |-> 0,
              last |-> NoDetach]

\* A feature attaches the debugger.
ChanAttach ==
    /\ chanSt.ctx = "alive"
    /\ ~chanSt.chan
    /\ chanSt' = [chanSt EXCEPT !.chan = TRUE, !.last = NoDetach]
    /\ UNCHANGED chanOthers

\* The content context is destroyed, and its debugger session with it.
ChanContextDestroyed ==
    /\ chanSt.ctx = "alive"
    /\ chanSt' = [chanSt EXCEPT !.ctx = "destroyed", !.chan = FALSE,
                                !.last = NoDetach]
    /\ UNCHANGED chanOthers

\* safeDetachDebugger(webContents)
ChanSafeDetach(how) ==
    /\ chanSt.calls < MaxDetachCalls
    /\ LET r == DetachRun([ctx |-> chanSt.ctx, chan |-> chanSt.chan], how)
       IN chanSt' = [ctx |-> r.sv.ctx, chan |-> r.sv.chan,
                     calls |-> chanSt.calls + 1,
                     physical |-> chanSt.physical + (IF r.issued THEN 1 ELSE 0),
                     last |-> [called |-> TRUE, ctx |-> chanSt.ctx,
                               was |-> chanSt.chan, issued |-> r.issued,
                               threw |-> r.threw, raised |-> r.raised]]
    /\ UNCHANGED chanOthers

ChanSafeDetaches == \E how \in {"query", "detach"} : ChanSafeDetach(how)

NextChan ==
    \/ ChanAttach
    \/ ChanContextDestroyed
    \/ ChanSafeDetaches

(***************************************************************************)
(* DialogHandler: DialogHandler.js                                         *)
(***************************************************************************)
\* A variant of SafeAttachTry that reports success when attach() failed.
SafeAttachTryMut(att, fails) ==
    IF att THEN [att |-> TRUE, ok |-> TRUE, phys |-> FALSE]
    ELSE IF fails THEN [att |-> FALSE, ok |-> TRUE, phys |-> TRUE]
    ELSE [att |-> TRUE, ok |-> TRUE, phys |-> TRUE]

\* safeAttachDebugger on a debugger whose attach() may fail: whether the
\* debugger is attached afterwards, what the call returned, and whether it
\* called attach().
SafeAttachTry(att, fails) ==
    IF att THEN [att |-> TRUE, ok |-> TRUE, phys |-> FALSE]
    ELSE IF fails THEN [att |-> FALSE, ok |-> FALSE, phys |-> TRUE]
    ELSE [att |-> TRUE, ok |-> TRUE, phys |-> TRUE]

DialogTypes == {"alert", "confirm", "prompt", "beforeunload", "other"}

\* The options enable() is called with: everything accepted (the defaults),
\* or nothing.
DlgOptions ==
    {[acceptAlerts |-> b, acceptConfirms |-> b, acceptBeforeUnload |-> b] :
        b \in BOOLEAN}

\* What the handler given to enable() comes back with.
DlgOutcomes == {"throw", "nothing", "accept", "deny"}

NoDialog == [open |-> FALSE, type |-> "none", cmds |-> <<>>]
NoDlgCall == [op |-> "none", result |-> "none", tries |-> <<>>]

\* A variant of DefaultAccept that denies a dialog of an unknown type.
DefaultAcceptMut(type, o) ==
    CASE type = "alert" -> o.acceptAlerts
      [] type = "confirm" -> o.acceptConfirms
      [] type = "prompt" -> TRUE
      [] type = "beforeunload" -> o.acceptBeforeUnload
      [] OTHER -> FALSE

\* _onDialog without a handler: accept starts as true and the switch on
\* params.type, which has no default case, sets it for the four known types.
DefaultAccept(type, o) ==
    CASE type = "alert" -> o.acceptAlerts
      [] type = "confirm" -> o.acceptConfirms
      [] type = "prompt" -> TRUE
      [] type = "beforeunload" -> o.acceptBeforeUnload
      [] OTHER -> TRUE

\* _onDialog with a handler: accept starts as true; a result sets it to
\* result.accept !== false; a throw or no result leaves it.
HandlerAccept(outcome) == outcome # "deny"

\* Page.handleJavaScriptDialog issued by registration reg for dialog d: the
\* debugger accepts the command when the dialog is open, which closes it, and
\* rejects it otherwise; the rejection is caught.
DlgCommand(d, accept, reg, by) ==
    [d EXCEPT !.open = FALSE,
              !.cmds = Append(@, [accept |-> accept, reg |-> reg, by |-> by,
                                  ok |-> d.open])]

DlgInit ==
    /\ dAttached = FALSE
    /\ dPageOn = FALSE
    /\ dEnabled = FALSE
    /\ dHandler = FALSE
    /\ dOpts = [acceptAlerts |-> TRUE, acceptConfirms |-> TRUE,
                acceptBeforeUnload |-> TRUE]
    /\ dOnDialog = NULL
    /\ dListeners = <<>>
    /\ dRegs = 0
    /\ dOps = EmptyBag
    /\ dialog = NoDialog
    /\ dCallbacks = {}
    /\ dLast = NoDlgCall

DlgOps == BagToSet(dOps)

\* enable(options) up to its first await: nothing when _enabled is set, else
\* safeAttachDebugger.
DlgEnable(h, o, fails) ==
    /\ BagCardinality(dOps) < MaxDlgOps
    /\ IF dEnabled
       THEN /\ dLast' = [op |-> "enable", result |-> "noop", tries |-> <<>>]
            /\ UNCHANGED <<dAttached, dOps>>
       ELSE LET a == SafeAttachTry(dAttached, fails)
            IN /\ dAttached' = a.att
               /\ dOps' = dOps (+) SetToBag({[pc |-> "pageEnable", handler |-> h,
                                              opts |-> o, tries |-> <<a.ok>>]})
               /\ dLast' = NoDlgCall
    /\ UNCHANGED <<dPageOn, dEnabled, dHandler, dOpts, dOnDialog, dListeners,
                   dRegs, dialog, dCallbacks, dlgOthers>>

\* An enable() in flight resumes after its await and runs to the next one,
\* or to its end.
DlgStep(t, fails) ==
    /\ t \in DlgOps
    /\ LET rest == dOps (-) SetToBag({t})
           goes(pc, tries) ==
               rest (+) SetToBag({[t EXCEPT !.pc = pc, !.tries = tries]})
       IN \/ /\ t.pc = "pageEnable"
             \* cdpSend('Page.enable'): the attach is tried again when the
             \* debugger is not attached, else the command is sent
             /\ IF dAttached
                THEN /\ dPageOn' = TRUE
                     /\ dOps' = goes("register", t.tries)
                     /\ UNCHANGED dAttached
                ELSE LET a == SafeAttachTry(dAttached, fails)
                     IN /\ dAttached' = a.att
                        /\ dOps' = goes("cdpAttached", Append(t.tries, a.ok))
                        /\ UNCHANGED dPageOn
             /\ dLast' = NoDlgCall
             /\ UNCHANGED <<dEnabled, dHandler, dOpts, dOnDialog, dListeners,
                            dRegs>>
          \/ /\ t.pc = "cdpAttached"
             \* cdpSend after its attach: it throws, and enable() with it,
             \* when the attach failed; else the command is sent
             /\ IF t.tries[Len(t.tries)]
                THEN /\ dPageOn' = TRUE
                     /\ dOps' = goes("register", t.tries)
                     /\ dLast' = NoDlgCall
                ELSE /\ dOps' = rest
                     /\ dLast' = [op |-> "enable", result |-> "failed",
                                  tries |-> t.tries]
                     /\ UNCHANGED dPageOn
             /\ UNCHANGED <<dAttached, dEnabled, dHandler, dOpts, dOnDialog,
                            dListeners, dRegs>>
          \/ /\ t.pc = "register"
             \* the handler and the options are stored, _onDialog is made
             \* and added, _enabled is set, and enable() returns
             /\ dRegs < MaxDlgRegs
             /\ dHandler' = t.handler
             /\ dOpts' = t.opts
             /\ dOnDialog' = dRegs + 1
             /\ dListeners' = Append(dListeners, dRegs + 1)
             /\ dRegs' = dRegs + 1
             /\ dEnabled' = TRUE
             /\ dOps' = rest
             /\ dLast' = [op |-> "enable", result |-> "enabled",
                          tries |-> t.tries]
             /\ UNCHANGED <<dAttached, dPageOn>>
    /\ UNCHANGED <<dialog, dCallbacks, dlgOthers>>

\* A variant of DlgDisable that leaves the listener on the debugger.
DlgDisableMut ==
    /\ IF ~dEnabled
       THEN UNCHANGED <<dEnabled, dHandler, dOnDialog>>
       ELSE /\ dOnDialog' = NULL
            /\ dHandler' = FALSE
            /\ dEnabled' = FALSE
    /\ dLast' = [op |-> "disable", tries |-> <<>>,
                 result |-> IF dEnabled THEN "disabled" ELSE "noop"]
    /\ UNCHANGED <<dAttached, dPageOn, dOpts, dListeners, dRegs, dOps, dialog,
                   dCallbacks, dlgOthers>>

\* A variant of DlgDisable that detaches the debugger.
DlgDisableDetachMut ==
    /\ IF ~dEnabled
       THEN UNCHANGED <<dEnabled, dHandler, dOnDialog, dListeners, dAttached>>
       ELSE /\ dListeners' = IF dOnDialog # NULL
                             THEN SelectSeq(dListeners, LAMBDA l : l # dOnDialog)
                             ELSE dListeners
            /\ dOnDialog' = NULL
            /\ dHandler' = FALSE
            /\ dEnabled' = FALSE
            /\ dAttached' = FALSE
    /\ dLast' = [op |-> "disable", tries |-> <<>>,
                 result |-> IF dEnabled THEN "disabled" ELSE "noop"]
    /\ UNCHANGED <<dPageOn, dOpts, dRegs, dOps, dialog, dCallbacks, dlgOthers>>

\* disable(): it has no await.
DlgDisable ==
    /\ IF ~dEnabled
       THEN UNCHANGED <<dEnabled, dHandler, dOnDialog, dListeners>>
       ELSE /\ dListeners' = IF dOnDialog # NULL
                             THEN SelectSeq(dListeners, LAMBDA l : l # dOnDialog)
                             ELSE dListeners
            /\ dOnDialog' = NULL
            /\ dHandler' = FALSE
            /\ dEnabled' = FALSE
    /\ dLast' = [op |-> "disable", tries |-> <<>>,
                 result |-> IF dEnabled THEN "disabled" ELSE "noop"]
    /\ UNCHANGED <<dAttached, dPageOn, dOpts, dRegs, dOps, dialog, dCallbacks,
                   dlgOthers>>

\* The commands the listeners ls issue for a dialog before they return or
\* await: without a handler each issues its command at once.
RECURSIVE DlgSyncCommands(_, _)
DlgSyncCommands(d, ls) ==
    IF ls = <<>> THEN d
    ELSE DlgSyncCommands(
             DlgCommand(d, DefaultAccept(d.type, dOpts), Head(ls), "default"),
             Tail(ls))

\* The page opens a dialog: the debugger emits Page.javascriptDialogOpening
\* and every listener is called with it.
DialogOpening(type) ==
    /\ dAttached
    /\ dPageOn
    /\ dialog = NoDialog
    /\ LET d == [open |-> TRUE, type |-> type, cmds |-> <<>>]
       IN IF dHandler
          THEN /\ dialog' = d
               /\ dCallbacks' = Range(dListeners)
          ELSE /\ dialog' = DlgSyncCommands(d, dListeners)
               /\ UNCHANGED dCallbacks
    /\ dLast' = NoDlgCall
    /\ UNCHANGED <<dAttached, dPageOn, dEnabled, dHandler, dOpts, dOnDialog,
                   dListeners, dRegs, dOps, dlgOthers>>

\* The handler called by the listener of registration reg settles, and the
\* listener issues its command.
DlgCallbackResume(reg, outcome) ==
    /\ reg \in dCallbacks
    /\ dCallbacks' = dCallbacks \ {reg}
    /\ dialog' = DlgCommand(dialog, HandlerAccept(outcome), reg,
                            IF outcome = "throw" THEN "fallback" ELSE "handler")
    /\ dLast' = NoDlgCall
    /\ UNCHANGED <<dAttached, dPageOn, dEnabled, dHandler, dOpts, dOnDialog,
                   dListeners, dRegs, dOps, dlgOthers>>

DlgEnables ==
    \E h \in BOOLEAN, o \in DlgOptions, fails \in BOOLEAN : DlgEnable(h, o, fails)
DlgSteps == \E t \in DlgOps, fails \in BOOLEAN : DlgStep(t, fails)
DialogOpens == \E type \in DialogTypes : DialogOpening(type)
DlgCallbackResumes ==
    \E reg \in dCallbacks, outcome \in DlgOutcomes : DlgCallbackResume(reg, outcome)

NextDlg ==
    \/ DlgEnables
    \/ DlgSteps
    \/ DlgDisable
    \/ DialogOpens
    \/ DlgCallbackResumes

(***************************************************************************)
(* The interceptRequests listener: Waiter.js, Network._onRequestPaused     *)
(***************************************************************************)
IcptOutcomes == HandlerOutcomes \cup {"continueUrl"}

IcptIdle == [st |-> "idle", cmds |-> <<>>, raised |-> FALSE, threw |-> FALSE]

IcptInit ==
    icp = [handler |-> FALSE, listener |-> FALSE, pending |-> FALSE,
           reqs |-> [r \in RequestIds |-> IcptIdle]]

\* The request has a resolution command that the debugger accepted.
IcptResolved(q) == \E i \in 1..Len(q.cmds) : q.cmds[i].ok

\* cdpSend of a resolution command for the request with record q: the
\* debugger accepts it when the request is still paused and rej is not set
\* (it rejects a command it cannot carry out), and rejects it otherwise.
\* bare: the command carries the requestId alone.
IcptSend(q, cmd, bare, by, rej, st) ==
    [q EXCEPT !.st = st,
              !.cmds = Append(@, [cmd |-> cmd, bare |-> bare, by |-> by,
                                  ok |-> ~rej /\ ~IcptResolved(q)])]

\* The fail-safe of the catch block: continueRequest with the requestId
\* alone, its rejection caught by .catch(() => {}).
IcptFallback(q, rej) ==
    IcptSend(q, "continueRequest", TRUE, "fallback", rej, "fallbackSent")

\* What the listener call raises when its fail-safe command settles:
\* .catch(() => {}) turns a rejection into a resolved promise.
IcptSwallow(rejected) == FALSE

\* A variant of IcptAfterCommand that runs the fail-safe after every command.
IcptAfterCommandMut(q, rej) == IcptFallback(q, rej)

\* The command sent inside the try block settles: the listener call ends
\* when it was accepted; when it was rejected the await throws and the catch
\* block runs the fail-safe.
IcptAfterCommand(q, rej) ==
    IF q.cmds[Len(q.cmds)].ok THEN [q EXCEPT !.st = "done"]
    ELSE IcptFallback(q, rej)

\* interceptRequests(handler) up to its last await: the handler is stored.
IcptCall(h) ==
    /\ ~icp.pending
    /\ icp' = [icp EXCEPT !.handler = h, !.pending = TRUE]
    /\ UNCHANGED icpOthers

\* interceptRequests after Fetch.enable: the listener is registered in the
\* place of the one before.
IcptRegistered ==
    /\ icp.pending
    /\ icp' = [icp EXCEPT !.listener = TRUE, !.pending = FALSE]
    /\ UNCHANGED icpOthers

\* Network.destroy(): the listener is removed, the handler forgotten, and
\* _enabled cleared.
IcptDestroy ==
    /\ icp' = [icp EXCEPT !.listener = FALSE, !.handler = FALSE]
    /\ nw' = [nw EXCEPT !.enabled = FALSE]
    /\ UNCHANGED <<others, chanSt, dlgVars, dl, cbk, pg>>

\* Fetch.requestPaused for request r: without a handler the listener issues
\* continueRequest, else it calls the handler.
IcptRequestPaused(r, rej) ==
    /\ icp.listener
    /\ icp.reqs[r].st = "idle"
    /\ icp' = [icp EXCEPT !.reqs[r] =
                  IF icp.handler THEN [@ EXCEPT !.st = "handler"]
                  ELSE IcptSend(@, "continueRequest", TRUE, "nohandler", rej,
                                "fallbackSent")]
    /\ UNCHANGED icpOthers

\* The handler settles: the command chosen from its result is sent; a throw
\* runs the fail-safe; a result with another action sends nothing.
IcptHandlerSettles(r, outcome, rej) ==
    /\ icp.reqs[r].st = "handler"
    /\ icp' = [icp EXCEPT !.reqs[r] =
          CASE outcome = "throw" -> IcptFallback([@ EXCEPT !.threw = TRUE], rej)
            [] outcome \in {"nothing", "continue"} ->
                   IcptSend(@, "continueRequest", TRUE, "chosen", rej, "sent")
            [] outcome = "continueUrl" ->
                   IcptSend(@, "continueRequest", FALSE, "chosen", rej, "sent")
            [] outcome = "block" ->
                   IcptSend(@, "failRequest", FALSE, "chosen", rej, "sent")
            [] OTHER -> [@ EXCEPT !.st = "done"]]
    /\ UNCHANGED icpOthers

\* The command sent inside the try block settles.
IcptCommandSettles(r, rej) ==
    /\ icp.reqs[r].st = "sent"
    /\ icp' = [icp EXCEPT !.reqs[r] = IcptAfterCommand(@, rej)]
    /\ UNCHANGED icpOthers

\* The fail-safe command settles: its rejection is caught, and the listener
\* call ends.
IcptFallbackSettles(r) ==
    /\ icp.reqs[r].st = "fallbackSent"
    /\ icp' = [icp EXCEPT !.reqs[r] =
                  [@ EXCEPT !.st = "done",
                            !.raised = IcptSwallow(~@.cmds[Len(@.cmds)].ok)]]
    /\ UNCHANGED icpOthers

IcptCalls == \E h \in BOOLEAN : IcptCall(h)
IcptRequestsPaused == \E r \in RequestIds, rej \in BOOLEAN : IcptRequestPaused(r, rej)
IcptHandlers ==
    \E r \in RequestIds, outcome \in IcptOutcomes, rej \in BOOLEAN :
        IcptHandlerSettles(r, outcome, rej)
IcptCommands == \E r \in RequestIds, rej \in BOOLEAN : IcptCommandSettles(r, rej)
IcptFallbacks == \E r \in RequestIds : IcptFallbackSettles(r)

NextIcpt ==
    \/ IcptCalls
    \/ IcptRegistered
    \/ IcptDestroy
    \/ IcptRequestsPaused
    \/ IcptHandlers
    \/ IcptCommands
    \/ IcptFallbacks

(***************************************************************************)
(* Network.enable and Network.disable, with an attach that may fail        *)
(***************************************************************************)
NoNwCall == [op |-> "none", result |-> "none", tries |-> <<>>]

NwInit ==
    nw = [enabled |-> FALSE, domain |-> FALSE, listeners |-> 0,
          ops |-> EmptyBag, last |-> NoNwCall]

NwOps == BagToSet(nw.ops)

\* enable() up to its first await: nothing when _enabled is set, else
\* safeAttachDebugger.
NwEnable(fails) ==
    /\ BagCardinality(nw.ops) < MaxNwOps
    /\ IF nw.enabled
       THEN /\ nw' = [nw EXCEPT !.last = [op |-> "enable", result |-> "noop",
                                          tries |-> <<>>]]
            /\ UNCHANGED dAttached
       ELSE LET a == SafeAttachTry(dAttached, fails)
            IN /\ dAttached' = a.att
               /\ nw' = [nw EXCEPT
                           !.ops = @ (+) SetToBag({[op |-> "enable", pc |-> "send",
                                                    tries |-> <<a.ok>>]}),
                           !.last = NoNwCall]
    /\ UNCHANGED nwOthers

\* disable() up to its first await: nothing when _enabled is not set, else
\* cdpSend('Network.disable'), which attaches first when the debugger is not
\* attached.
NwDisable(fails) ==
    /\ BagCardinality(nw.ops) < MaxNwOps
    /\ IF ~nw.enabled
       THEN /\ nw' = [nw EXCEPT !.last = [op |-> "disable", result |-> "noop",
                                          tries |-> <<>>]]
            /\ UNCHANGED dAttached
       ELSE IF dAttached
            THEN /\ nw' = [nw EXCEPT
                             !.domain = FALSE,
                             !.ops = @ (+) SetToBag({[op |-> "disable", pc |-> "finish",
                                                      tries |-> <<>>]}),
                             !.last = NoNwCall]
                 /\ UNCHANGED dAttached
            ELSE LET a == SafeAttachTry(dAttached, fails)
                 IN /\ dAttached' = a.att
                    /\ nw' = [nw EXCEPT
                                !.ops = @ (+) SetToBag({[op |-> "disable",
                                                         pc |-> "cdpAttached",
                                                         tries |-> <<a.ok>>]}),
                                !.last = NoNwCall]
    /\ UNCHANGED nwOthers

\* A call in flight resumes after its await and runs to the next one, or to
\* its end.
NwStep(t, fails) ==
    /\ t \in NwOps
    /\ LET rest == nw.ops (-) SetToBag({t})
           goes(pc, tries) ==
               rest (+) SetToBag({[t EXCEPT !.pc = pc, !.tries = tries]})
           ret(result) == [op |-> t.op, result |-> result, tries |-> t.tries]
       IN \/ /\ t.pc = "send"
             \* enable: cdpSend('Network.enable') attaches first when the
             \* debugger is not attached
             /\ IF dAttached
                THEN /\ nw' = [nw EXCEPT !.domain = TRUE,
                                         !.ops = goes("finish", t.tries),
                                         !.last = NoNwCall]
                     /\ UNCHANGED dAttached
                ELSE LET a == SafeAttachTry(dAttached, fails)
                     IN /\ dAttached' = a.att
                        /\ nw' = [nw EXCEPT
                                    !.ops = goes("cdpAttached", Append(t.tries, a.ok)),
                                    !.last = NoNwCall]
          \/ /\ t.pc = "cdpAttached"
             \* cdpSend after its attach: it throws when the attach failed,
             \* else the command is sent; enable() throws with it, disable()
             \* catches
             /\ IF t.tries[Len(t.tries)]
                THEN nw' = [nw EXCEPT !.domain = (t.op = "enable"),
                                      !.ops = goes("finish", t.tries),
                                      !.last = NoNwCall]
                ELSE IF t.op = "enable"
                     THEN nw' = [nw EXCEPT !.ops = rest, !.last = ret("failed")]
                     ELSE nw' = [nw EXCEPT !.ops = goes("finish", t.tries),
                                           !.last = NoNwCall]
             /\ UNCHANGED dAttached
          \/ /\ t.pc = "finish"
             \* _enabled is set by enable(), cleared by disable(); neither
             \* adds or removes a listener
             /\ nw' = [nw EXCEPT !.enabled = (t.op = "enable"),
                                 !.ops = rest,
                                 !.last = ret(IF t.op = "enable" THEN "enabled"
                                              ELSE "disabled")]
             /\ UNCHANGED dAttached
    /\ UNCHANGED nwOthers

NwEnables == \E fails \in BOOLEAN : NwEnable(fails)
NwDisables == \E fails \in BOOLEAN : NwDisable(fails)
NwSteps == \E t \in NwOps, fails \in BOOLEAN : NwStep(t, fails)

\* enable() and disable() of the DialogHandler and of the Network on one
\* debugger, in any interleaving.
NextAttach ==
    \/ DlgEnables
    \/ DlgSteps
    \/ DlgDisable
    \/ NwEnables
    \/ NwDisables
    \/ NwSteps

(***************************************************************************)
(* DownloadManager: DownloadManager.js                                     *)
(***************************************************************************)
DownloadStates == {"progressing", "completed", "cancelled", "interrupted"}

\* What the handler given to enable() comes back with; it is called
\* synchronously.
DlOutcomes == {"throw", "nothing", "accept", "deny"}

DownloadIds == 1..MaxDownloads

NoDlCall == [op |-> "none"]

DlInit ==
    dl = [enabled |-> FALSE, handler |-> FALSE, onWillDownload |-> NULL,
          listeners |-> <<>>, regs |-> 0, counter |-> 0,
          downloads |-> <<>>, items |-> <<>>, last |-> NoDlCall]

\* A variant of WillDownloadAccept that rejects the download when the
\* handler throws.
WillDownloadAcceptMut(autoAccept, hasHandler, outcome) ==
    IF ~hasHandler \/ outcome = "nothing" THEN autoAccept
    ELSE outcome = "accept"

\* The accept decision of _onWillDownload: autoAccept, unless there is a
\* handler and it returns a result, which gives result.accept !== false; a
\* throw of the handler is caught and leaves autoAccept.
WillDownloadAccept(autoAccept, hasHandler, outcome) ==
    IF ~hasHandler \/ outcome \in {"throw", "nothing"} THEN autoAccept
    ELSE outcome # "deny"

\* enable(options): nothing when _enabled is set; else the handler is
\* stored, _onWillDownload is made with autoAccept in its closure and added to
\* the session, and _enabled is set.
DlEnable(h, autoAccept) ==
    /\ IF dl.enabled
       THEN dl' = [dl EXCEPT !.last = [op |-> "enable", result |-> "noop"]]
       ELSE /\ dl.regs < MaxDlRegs
            /\ dl' = [dl EXCEPT
                        !.handler = h,
                        !.onWillDownload = dl.regs + 1,
                        !.listeners = Append(@, [reg |-> dl.regs + 1,
                                                 autoAccept |-> autoAccept]),
                        !.regs = @ + 1,
                        !.enabled = TRUE,
                        !.last = [op |-> "enable", result |-> "enabled"]]
    /\ UNCHANGED dlOthers

\* A variant of DlDisabled that clears _downloads as well.
DlDisabledMut(m) ==
    IF ~m.enabled THEN m
    ELSE [m EXCEPT
            !.listeners = IF m.onWillDownload # NULL
                          THEN SelectSeq(@, LAMBDA l : l.reg # m.onWillDownload)
                          ELSE @,
            !.onWillDownload = NULL,
            !.enabled = FALSE,
            !.downloads = [i \in DOMAIN @ |-> [@[i] EXCEPT !.kept = FALSE]]]

\* The body of disable() on manager record m.
DlDisabled(m) ==
    IF ~m.enabled THEN m
    ELSE [m EXCEPT
            !.listeners = IF m.onWillDownload # NULL
                          THEN SelectSeq(@, LAMBDA l : l.reg # m.onWillDownload)
                          ELSE @,
            !.onWillDownload = NULL,
            !.enabled = FALSE]

\* disable()
DlDisable ==
    /\ dl' = [DlDisabled(dl) EXCEPT
                !.last = [op |-> "disable",
                          result |-> IF dl.enabled THEN "disabled" ELSE "noop"]]
    /\ UNCHANGED dlOthers

\* The session starts a download and emits 'will-download': the listener
\* makes the record under the next id, decides, and either cancels the item
\* and stores the record as cancelled, or stores it as progressing and
\* listens to the item.
WillDownload(outcome) ==
    /\ dl.listeners # <<>>
    /\ dl.counter < MaxDownloads
    /\ LET l == dl.listeners[1]
           id == dl.counter + 1
           accept == WillDownloadAccept(l.autoAccept, dl.handler, outcome)
       IN dl' = [dl EXCEPT
                   !.counter = id,
                   !.downloads = Append(@, [state |-> IF accept THEN "progressing"
                                                     ELSE "cancelled",
                                            rejected |-> ~accept,
                                            kept |-> TRUE]),
                   !.items = Append(@, [st |-> IF accept THEN "active"
                                               ELSE "cancelling",
                                        heard |-> accept]),
                   !.last = [op |-> "willDownload", id |-> id, accept |-> accept,
                             threw |-> dl.handler /\ outcome = "throw"]]
    /\ UNCHANGED dlOthers

\* The item of download id emits 'updated' with state progressing or
\* interrupted: the record takes the state.
ItemUpdated(id, state) ==
    /\ id \in 1..dl.counter
    /\ dl.items[id].st = "active"
    /\ dl.items[id].heard
    /\ dl' = [dl EXCEPT !.downloads[id].state = state, !.last = NoDlCall]
    /\ UNCHANGED dlOthers

\* The item of download id emits 'done', once, with state completed,
\* cancelled or interrupted (cancelled when it was cancelled): the record
\* takes the state when the listener of the manager is on the item.
ItemDone(id, state) ==
    /\ id \in 1..dl.counter
    /\ dl.items[id].st # "done"
    /\ dl.items[id].st = "cancelling" => state = "cancelled"
    /\ dl' = [dl EXCEPT
                !.downloads[id].state = IF dl.items[id].heard THEN state ELSE @,
                !.items[id].st = "done",
                !.last = NoDlCall]
    /\ UNCHANGED dlOthers

\* cancel(id): the item is cancelled when the id is known.
DlCancel(id) ==
    /\ dl' = [dl EXCEPT
                !.items = [i \in DOMAIN @ |->
                              IF i = id /\ dl.downloads[i].kept /\ @[i].st = "active"
                              THEN [@[i] EXCEPT !.st = "cancelling"] ELSE @[i]],
                !.last = [op |-> "cancel", id |-> id,
                          result |-> id \in 1..dl.counter /\ dl.downloads[id].kept]]
    /\ UNCHANGED dlOthers

\* get(id): the record, or null.
DlGet(id) ==
    IF id \in 1..dl.counter /\ dl.downloads[id].kept THEN dl.downloads[id].state
    ELSE "null"

\* destroy(): the items of the progressing records are cancelled, disable()
\* is called, and _downloads is cleared.
DlDestroy ==
    /\ dl' = [DlDisabled(dl) EXCEPT
                !.items = [i \in DOMAIN @ |->
                              IF /\ dl.downloads[i].kept
                                 /\ dl.downloads[i].state = "progressing"
                                 /\ @[i].st = "active"
                              THEN [@[i] EXCEPT !.st = "cancelling"] ELSE @[i]],
                !.downloads = [i \in DOMAIN @ |-> [@[i] EXCEPT !.kept = FALSE]],
                !.last = [op |-> "destroy"]]
    /\ UNCHANGED dlOthers

DlEnables == \E h \in BOOLEAN, autoAccept \in BOOLEAN : DlEnable(h, autoAccept)
WillDownloads == \E outcome \in DlOutcomes : WillDownload(outcome)
ItemUpdates ==
    \E id \in DownloadIds, state \in {"progressing", "interrupted"} :
        ItemUpdated(id, state)
ItemDones ==
    \E id \in DownloadIds, state \in {"completed", "cancelled", "interrupted"} :
        ItemDone(id, state)
DlCancels == \E id \in DownloadIds : DlCancel(id)

NextDl ==
    \/ DlEnables
    \/ DlDisable
    \/ WillDownloads
    \/ ItemUpdates
    \/ ItemDones
    \/ DlCancels
    \/ DlDestroy

(***************************************************************************)
(* The internal event callbacks, one call at a time                        *)
(***************************************************************************)
\* What the handler given to setPopupHandler comes back with; it is called
\* synchronously.
PopupOutcomes == {"throw", "nothing", "allow", "deny"}

EvIdle ==
    [kind |-> "none", pc |-> "idle", handler |-> FALSE, threw |-> FALSE,
     rejected |-> FALSE, raised |-> FALSE, decision |-> "none", dflt |-> "none",
     q |-> IcptIdle, d |-> NoDialog]

EvInit == cbk = EvIdle

\* A variant of PopupDecision that allows the popup when the handler throws.
PopupDecisionMut(hasHandler, outcome) ==
    IF ~hasHandler THEN "deny"
    ELSE IF outcome \in {"allow", "throw"} THEN "allow"
    ELSE "deny"

\* The callback given to setWindowOpenHandler by setPopupHandler: deny
\* without a handler, the handler's answer, and deny when it throws or
\* answers nothing.
PopupDecision(hasHandler, outcome) ==
    IF ~hasHandler THEN "deny"
    ELSE IF outcome = "allow" THEN "allow"
    ELSE "deny"

\* An exception inside a try block whose catch block is empty: nothing is
\* raised further.
Caught(thrown) == FALSE

\* The callback starts only when the one before has ended.
EvFree == cbk.pc \in {"idle", "done"}

\* Fetch.requestPaused reaches the interceptRequests listener.
EvRequestPaused(h, rej) ==
    /\ EvFree
    /\ LET q == IF h THEN [IcptIdle EXCEPT !.st = "handler"]
                ELSE IcptSend(IcptIdle, "continueRequest", TRUE, "nohandler",
                              rej, "fallbackSent")
       IN cbk' = [EvIdle EXCEPT !.kind = "requestPaused", !.handler = h,
                               !.q = q, !.pc = q.st, !.rejected = ~h /\ rej,
                               !.dflt = "continueRequest"]
    /\ UNCHANGED evOthers

\* Page.javascriptDialogOpening reaches _onDialog; gone: the dialog is
\* dismissed before the command of the callback arrives.
EvDialogOpening(type, h, gone) ==
    /\ EvFree
    /\ LET d == [open |-> ~gone, type |-> type, cmds |-> <<>>]
           opts == [acceptAlerts |-> TRUE, acceptConfirms |-> TRUE,
                    acceptBeforeUnload |-> TRUE]
       IN cbk' = [EvIdle EXCEPT
                   !.kind = "dialog", !.handler = h,
                   !.d = IF h THEN d
                         ELSE DlgCommand(d, DefaultAccept(type, opts), 1, "default"),
                   !.pc = IF h THEN "handler" ELSE "sent",
                   !.rejected = ~h /\ gone,
                   !.dflt = "accept"]
    /\ UNCHANGED evOthers

\* Page.fileChooserOpened reaches the listener of interceptFileChooser:
\* DOM.setFileInputFiles is sent inside a try block.
EvFileChooser(persistent, rej) ==
    /\ EvFree
    /\ cbk' = [EvIdle EXCEPT !.kind = "fileChooser", !.handler = persistent,
                            !.pc = "sent", !.rejected = rej]
    /\ UNCHANGED evOthers

\* 'will-download' reaches _onWillDownload, which has no await.
EvWillDownload(h, autoAccept, outcome) ==
    /\ EvFree
    /\ cbk' = [EvIdle EXCEPT
                !.kind = "willDownload", !.handler = h, !.pc = "done",
                !.threw = h /\ outcome = "throw",
                !.raised = Caught(h /\ outcome = "throw"),
                !.decision = IF WillDownloadAccept(autoAccept, h, outcome)
                             THEN "accept" ELSE "cancel",
                !.dflt = IF autoAccept THEN "accept" ELSE "cancel"]
    /\ UNCHANGED evOthers

\* The page asks for a new window and the callback of setPopupHandler is
\* called, which has no await.
EvWindowOpen(h, outcome) ==
    /\ EvFree
    /\ cbk' = [EvIdle EXCEPT
                !.kind = "windowOpen", !.handler = h, !.pc = "done",
                !.threw = h /\ outcome = "throw",
                !.raised = Caught(h /\ outcome = "throw"),
                !.decision = PopupDecision(h, outcome),
                !.dflt = "deny"]
    /\ UNCHANGED evOthers

\* 'did-finish-load' reaches _onFinishLoad, that is _applyPerformanceOptions:
\* blockResourceTypes when disableImages is set, then insertCSS when
\* disableAnimations is set, both inside one try block.
EvLoadFinish(images, animations) ==
    /\ EvFree
    /\ cbk' = [EvIdle EXCEPT
                !.kind = "loadFinish", !.handler = animations,
                !.pc = IF images THEN "blocking"
                       ELSE IF animations THEN "css" ELSE "done"]
    /\ UNCHANGED evOthers

\* The user's handler, awaited by the callback, settles.
EvHandlerSettles(outcome, rej) ==
    /\ cbk.pc = "handler"
    /\ \/ /\ cbk.kind = "requestPaused"
          /\ outcome \in IcptOutcomes
          /\ LET q == CASE outcome = "throw" ->
                               IcptFallback([cbk.q EXCEPT !.threw = TRUE], rej)
                        [] outcome \in {"nothing", "continue"} ->
                               IcptSend(cbk.q, "continueRequest", TRUE, "chosen",
                                        rej, "sent")
                        [] outcome = "continueUrl" ->
                               IcptSend(cbk.q, "continueRequest", FALSE, "chosen",
                                        rej, "sent")
                        [] outcome = "block" ->
                               IcptSend(cbk.q, "failRequest", FALSE, "chosen",
                                        rej, "sent")
                        [] OTHER -> [cbk.q EXCEPT !.st = "done"]
             IN cbk' = [cbk EXCEPT !.q = q, !.pc = q.st,
                                 !.threw = (outcome = "throw"),
                                 !.rejected = q.cmds # <<>> /\ rej]
       \/ /\ cbk.kind = "dialog"
          /\ outcome \in DlgOutcomes
          /\ cbk' = [cbk EXCEPT
                      !.d = DlgCommand(@, HandlerAccept(outcome), 1,
                                       IF outcome = "throw" THEN "fallback"
                                       ELSE "handler"),
                      !.pc = "sent",
                      !.threw = (outcome = "throw"),
                      !.rejected = ~cbk.d.open]
    /\ UNCHANGED evOthers

\* A command the callback awaits settles.
EvCommandSettles(rej) ==
    /\ \/ /\ cbk.kind = "requestPaused"
          /\ cbk.pc = "sent"
          /\ LET q == IcptAfterCommand(cbk.q, rej)
             IN cbk' = [cbk EXCEPT !.q = q, !.pc = q.st,
                                 !.rejected = @ \/ (q.st = "fallbackSent" /\ rej)]
       \/ /\ cbk.kind = "requestPaused"
          /\ cbk.pc = "fallbackSent"
          /\ ~rej
          /\ cbk' = [cbk EXCEPT
                      !.q.st = "done", !.pc = "done",
                      !.raised = IcptSwallow(~cbk.q.cmds[Len(cbk.q.cmds)].ok)]
       \/ /\ cbk.kind = "dialog"
          /\ cbk.pc = "sent"
          /\ ~rej
          /\ cbk' = [cbk EXCEPT !.pc = "done", !.raised = Caught(cbk.rejected)]
       \/ /\ cbk.kind = "fileChooser"
          /\ cbk.pc = "sent"
          /\ ~rej
          \* the rejection is caught; a listener that is not persistent goes
          \* on to stopInterceptFileChooser, which awaits one more command
          \* inside a try block
          /\ cbk' = [cbk EXCEPT !.pc = IF cbk.handler THEN "done" ELSE "stopping",
                              !.raised = Caught(cbk.rejected)]
       \/ /\ cbk.kind = "fileChooser"
          /\ cbk.pc = "stopping"
          /\ cbk' = [cbk EXCEPT !.pc = "done", !.rejected = @ \/ rej,
                              !.raised = Caught(rej)]
       \/ /\ cbk.kind = "loadFinish"
          /\ cbk.pc = "blocking"
          /\ cbk' = [cbk EXCEPT !.pc = IF ~rej /\ cbk.handler THEN "css" ELSE "done",
                              !.rejected = rej, !.raised = Caught(rej)]
       \/ /\ cbk.kind = "loadFinish"
          /\ cbk.pc = "css"
          /\ cbk' = [cbk EXCEPT !.pc = "done", !.rejected = rej,
                              !.raised = Caught(rej)]
    /\ UNCHANGED evOthers

EvRequestsPaused == \E h \in BOOLEAN, rej \in BOOLEAN : EvRequestPaused(h, rej)
EvDialogOpenings ==
    \E type \in DialogTypes, h \in BOOLEAN, gone \in BOOLEAN :
        EvDialogOpening(type, h, gone)
EvFileChoosers ==
    \E persistent \in BOOLEAN, rej \in BOOLEAN : EvFileChooser(persistent, rej)
EvWillDownloads ==
    \E h \in BOOLEAN, autoAccept \in BOOLEAN, outcome \in DlOutcomes :
        EvWillDownload(h, autoAccept, outcome)
EvWindowOpens == \E h \in BOOLEAN, outcome \in PopupOutcomes : EvWindowOpen(h, outcome)
EvLoadFinishes ==
    \E images \in BOOLEAN, animations \in BOOLEAN : EvLoadFinish(images, animations)
EvHandlers ==
    \E outcome \in IcptOutcomes \cup DlgOutcomes, rej \in BOOLEAN :
        EvHandlerSettles(outcome, rej)
EvCommands == \E rej \in BOOLEAN : EvCommandSettles(rej)

NextEv ==
    \/ EvRequestsPaused
    \/ EvDialogOpenings
    \/ EvFileChoosers
    \/ EvWillDownloads
    \/ EvWindowOpens
    \/ EvLoadFinishes
    \/ EvHandlers
    \/ EvCommands

(***************************************************************************)
(* ElectronPage: its listeners, interceptFileChooser and destroy()         *)
(***************************************************************************)
NoFcCall == [pc |-> "none", persistent |-> FALSE]

\* The constructor adds the did-finish-load and render-process-gone
\* listeners. fcOn is the interception of the file chooser dialog in the
\* debugger session, fcCalls the calls of a file-chooser listener that await
\* their DOM.setFileInputFiles; fcLog is history: for every listener
\* registered so far, the events it has supplied files for.
PgInit ==
    pg = [destroyed |-> FALSE, loadListeners |-> TRUE, fileChooserListener |-> NULL,
          fcListeners |-> {}, fcRegs |-> 0, fcOp |-> NoFcCall,
          fcOn |-> FALSE, fcCalls |-> EmptyBag, fcLog |-> <<>>]

\* What the other handlers of the page have in flight is left alone by the
\* page's own calls.
pgOthers == <<others, chanSt, icp, nw, dl, cbk, dPageOn, dEnabled, dHandler,
              dOpts, dOnDialog, dListeners, dRegs, dOps, dialog, dCallbacks,
              dLast>>

\* interceptFileChooser(filePaths, options) up to its first await:
\* safeAttachDebugger.
PgInterceptFileChooser(persistent, fails) ==
    /\ ~pg.destroyed
    /\ pg.fcOp.pc = "none"
    /\ pg.fcRegs < MaxFcRegs
    /\ dAttached' = SafeAttachTry(dAttached, fails).att
    /\ pg' = [pg EXCEPT !.fcOp = [pc |-> "commands", persistent |-> persistent]]
    /\ UNCHANGED pgOthers

\* interceptFileChooser after its commands: it throws when the debugger
\* could not be attached; else the listener before is removed and the new one
\* added.
PgFileChooserRegistered(fails) ==
    /\ pg.fcOp.pc = "commands"
    /\ LET a == SafeAttachTry(dAttached, fails)
       IN /\ dAttached' = a.att
          /\ IF a.ok
             THEN pg' = [pg EXCEPT
                           !.fcListeners =
                               {l \in @ : l.reg # pg.fileChooserListener}
                                   \cup {[reg |-> pg.fcRegs + 1,
                                          persistent |-> pg.fcOp.persistent]},
                           !.fileChooserListener = pg.fcRegs + 1,
                           !.fcRegs = @ + 1,
                           !.fcOp = NoFcCall,
                           !.fcOn = TRUE,
                           !.fcLog = Append(@, [persistent |-> pg.fcOp.persistent,
                                                answered |-> 0])]
             ELSE pg' = [pg EXCEPT !.fcOp = NoFcCall]
    /\ UNCHANGED pgOthers

\* The body of stopInterceptFileChooser() on page record g: the listener
\* _fileChooserListener refers to is removed, and the interception is
\* switched off.
FcStopped(g) ==
    [g EXCEPT !.fcListeners = {l \in @ : l.reg # g.fileChooserListener},
              !.fileChooserListener = NULL,
              !.fcOn = FALSE]

\* stopInterceptFileChooser()
PgStopInterceptFileChooser ==
    /\ ~pg.destroyed
    /\ pg' = FcStopped(pg)
    /\ UNCHANGED <<dAttached, pgOthers>>

\* The debugger calls the listeners with Page.fileChooserOpened: each issues
\* DOM.setFileInputFiles for the chooser of the event and awaits it.
FcListenerCalled(g) ==
    [g EXCEPT !.fcLog = [r \in DOMAIN @ |->
                            IF \E l \in g.fcListeners : l.reg = r
                            THEN [@[r] EXCEPT !.answered = @ + 1] ELSE @[r]],
              !.fcCalls = @ (+) SetToBag(g.fcListeners)]

\* Page.fileChooserOpened, which the session emits while the interception is
\* on.
PgFileChooserOpened ==
    /\ dAttached
    /\ pg.fcOn
    /\ pg.fcListeners # {}
    /\ \A l \in pg.fcListeners : pg.fcLog[l.reg].answered < MaxFcEvents
    /\ pg' = FcListenerCalled(pg)
    /\ UNCHANGED <<dAttached, pgOthers>>

\* DOM.setFileInputFiles settles, resolved or rejected into the empty catch,
\* and the listener call c goes on to its end: a listener that is not
\* persistent calls stopInterceptFileChooser().
PgFileChooserAnswered(c) ==
    /\ BagIn(c, pg.fcCalls)
    /\ LET g == [pg EXCEPT !.fcCalls = @ (-) SetToBag({c})]
       IN pg' = IF c.persistent THEN g ELSE FcStopped(g)
    /\ UNCHANGED <<dAttached, pgOthers>>

PgFileChooserAnswers == \E c \in BagToSet(pg.fcCalls) : PgFileChooserAnswered(c)

\* destroy(): nothing when _destroyed is set; else the did-finish-load and
\* render-process-gone listeners are removed, network.destroy(),
\* dialogs.destroy() and downloads.destroy() are called, and the debugger is
\* detached.
PgDestroy ==
    /\ ~pg.destroyed
    /\ pg' = [pg EXCEPT !.destroyed = TRUE, !.loadListeners = FALSE,
                        !.fcOn = FALSE]
    /\ icp' = [icp EXCEPT !.listener = FALSE, !.handler = FALSE]
    /\ nw' = [nw EXCEPT !.enabled = FALSE]
    /\ IF dEnabled
       THEN /\ dListeners' = IF dOnDialog # NULL
                             THEN SelectSeq(dListeners, LAMBDA l : l # dOnDialog)
                             ELSE dListeners
            /\ dOnDialog' = NULL
            /\ dHandler' = FALSE
            /\ dEnabled' = FALSE
       ELSE UNCHANGED <<dEnabled, dHandler, dOnDialog, dListeners>>
    /\ dl' = [DlDisabled(dl) EXCEPT
                !.items = [i \in DOMAIN @ |->
                              IF /\ dl.downloads[i].kept
                                 /\ dl.downloads[i].state = "progressing"
                                 /\ @[i].st = "active"
                              THEN [@[i] EXCEPT !.st = "cancelling"] ELSE @[i]],
                !.downloads = [i \in DOMAIN @ |-> [@[i] EXCEPT !.kept = FALSE]],
                !.last = [op |-> "destroy"]]
    /\ dAttached' = SafeDetachDebugger([ctx |-> "alive", chan |-> dAttached]).chan
    /\ dPageOn' = FALSE
    /\ dLast' = [op |-> "destroy", result |-> "destroyed", tries |-> <<>>]
    /\ UNCHANGED <<others, chanSt, cbk, dOpts, dRegs, dOps, dialog, dCallbacks>>

\* The calls of the application on a page that is not destroyed (the
\* handlers enabled with their default options), the resumptions of the
\* calls in flight, the events, and destroy().
NextPage ==
    \/ \E persistent \in BOOLEAN, fails \in BOOLEAN :
           PgInterceptFileChooser(persistent, fails)
    \/ \E fails \in BOOLEAN : PgFileChooserRegistered(fails)
    \/ PgStopInterceptFileChooser
    \/ PgFileChooserOpened
    \/ PgFileChooserAnswers
    \/ ~pg.destroyed /\ \E fails \in BOOLEAN : DlgEnable(FALSE, dOpts, fails)
    \/ DlgSteps
    \/ ~pg.destroyed /\ IcptCall(TRUE)
    \/ IcptRegistered
    \/ ~pg.destroyed /\ DlEnable(FALSE, TRUE)
    \/ PgDestroy

\* The feature operations of a page that is not destroyed, each called when
\* no call of its handler is in flight, their resumptions, and destroy().
NextDetach ==
    \/ ~pg.destroyed /\ dOps = EmptyBag
           /\ \E fails \in BOOLEAN : DlgEnable(FALSE, dOpts, fails)
    \/ DlgSteps
    \/ ~pg.destroyed /\ DlgDisable
    \/ ~pg.destroyed /\ NwEnables
    \/ ~pg.destroyed /\ NwDisables
    \/ NwSteps
    \/ ~pg.destroyed /\ DlEnable(FALSE, TRUE)
    \/ ~pg.destroyed /\ DlDisable
    \/ \E fails \in BOOLEAN : PgInterceptFileChooser(TRUE, fails)
    \/ \E fails \in BOOLEAN : PgFileChooserRegistered(fails)
    \/ PgStopInterceptFileChooser
    \/ ~pg.destroyed /\ IcptCall(TRUE)
    \/ IcptRegistered
    \/ ~pg.destroyed /\ IcptDestroy
    \/ PgDestroy

\* No enable() or disable() is in flight.
SeqIdle == dOps = EmptyBag /\ nw.ops = EmptyBag

\* enable() and disable() of the three feature handlers, each call made
\* when the one before has returned.
NextSeq ==
    \/ SeqIdle /\ DlgEnables
    \/ DlgSteps
    \/ SeqIdle /\ DlgDisable
    \/ SeqIdle /\ NwEnables
    \/ SeqIdle /\ NwDisables
    \/ NwSteps
    \/ SeqIdle /\ DlEnables
    \/ SeqIdle /\ DlDisable

FeatInit == ChanInit /\ DlgInit /\ IcptInit /\ NwInit /\ DlInit /\ EvInit /\ PgInit

Init == GridInit /\ MgrInit /\ NetInit /\ WaitInit /\ PmInit /\ FeatInit

Tasks == BagToSet(tasks)

\* The number of destroyProfile calls of the application in flight.
UserTasks ==
    LET user == {t \in Tasks : t.owner = "user"}
        Sum[S \in SUBSET user] ==
            IF S = {} THEN 0
            ELSE LET t == CHOOSE x \in S : TRUE
                 IN CopiesIn(t, tasks) + Sum[S \ {t}]
    IN Sum[user]

\* The identity of the next surface object.
NewSid == CHOOSE n \in 1..MaxSurfaces :
              n \notin DOMAIN surf /\ \A k \in 1..(n - 1) : k \in DOMAIN surf

\* The surfaces that still matter once the registry maps are ps: a surface
\* that was torn down and that the registry no longer refers to plays no
\* further part and is dropped.
Collect(sf, ps) ==
    LET keep == {k \in DOMAIN sf : ~sf[k].pageDestroyed
                                    \/ \E i \in DOMAIN ps : ps[i] = k}
    IN [k \in keep |-> sf[k]]

\* createProfile(profileId) takes the early return: the id is in _profiles.
CreateProfileKnown(id) == id \in Range(profiles)

\* createProfile(profileId, options)
CreateProfile(id) ==
    /\ IF CreateProfileKnown(id)
       THEN /\ lastCall' = [op |-> "createProfile", id |-> id,
                            ret |-> profSid[id], created |-> FALSE]
            /\ UNCHANGED <<gridVars, profiles, profSid, pm, surf, tasks, cleanup,
                           handed>>
       ELSE /\ Cardinality(DOMAIN surf) < MaxSurfaces
            /\ LET sid == NewSid
                   vs == MapSet(gviews, id)
                   d == AutoGridDims(Len(vs))
               IN /\ pm' = PM_Create(pm, id)
                  /\ surf' = MapPut(surf, sid, NewSurface(id))
                  /\ profiles' = MapSet(profiles, id)
                  /\ profSid' = MapPut(profSid, id, sid)
                  /\ gviews' = vs
                  /\ gsid' = MapPut(gsid, id, sid)
                  /\ cols' = d[1]
                  /\ rows' = d[2]
                  /\ maximizedId' = NULL
                  /\ vbounds' = ApplyLayout(vs, d[1], d[2], NULL, win,
                                    AddViewBounds(gviews, gsid, vbounds, id, sid))
                  /\ lastCall' = [op |-> "createProfile", id |-> id,
                                  ret |-> sid, created |-> TRUE]
                  /\ handed' = MapPut(handed, id, sid)
                  /\ pre' = [taken |-> FALSE,
                             hidden |-> OverflowedIn(vs, cols, rows, maximizedId,
                                 AddViewBounds(gviews, gsid, vbounds, id, sid))]
            /\ gop' = [op |-> "autoGrid", id |-> NULL]
            /\ rt' = "none"
            /\ UNCHANGED <<resizeSub, win, tasks, cleanup>>

\* The synchronous part of destroyProfile(profileId) for a known id, called
\* by owner: the teardown steps, then ProfileManager.destroy up to its first
\* await (clearStorageData), or to its early return for an id it does not hold.
DestroySync(id, owner, rmFails, closeFails) ==
    LET sid == profSid[id]
        w0 == [sv |-> surf[sid], gv |-> gviews, gs |-> gsid, vb |-> vbounds,
               mx |-> maximizedId, log |-> <<>>]
        w == TeardownSync(w0, id, rmFails, closeFails)
    IN /\ surf' = [surf EXCEPT ![sid] = w.sv]
       /\ gviews' = w.gv
       /\ gsid' = w.gs
       /\ vbounds' = w.vb
       /\ maximizedId' = w.mx
       /\ tasks' = tasks (+) SetToBag({
              [id |-> id, owner |-> owner,
               pc |-> IF id \in pm THEN "clearing" ELSE "pmReturn"]})
       /\ lastCall' = [op |-> "destroyProfile", id |-> id, known |-> TRUE,
                       owner |-> owner, disposed |-> ~surf[sid].pageDestroyed,
                       log |-> w.log]
       /\ gop' = [op |-> "removeView", id |-> id]
       /\ rt' = "none"
       /\ pre' = NoSnap
       /\ UNCHANGED <<cols, rows, resizeSub, win, profiles, profSid, pm, handed>>

\* A variant of DestroyUnknown that removes the view from the grid before it
\* looks the id up.
DestroyUnknownMut(id) ==
    /\ lastCall' = [op |-> "destroyProfile", id |-> id, known |-> FALSE]
    /\ gviews' = Without(gviews, id)
    /\ gsid' = MapDel(gsid, id)
    /\ vbounds' = MapDel(vbounds, id)
    /\ UNCHANGED <<cols, rows, maximizedId, resizeSub, win, gop, rt, pre,
                   profiles, profSid, pm, surf, tasks, cleanup, handed>>

\* destroyProfile(profileId) for an id that _profiles does not hold: the
\* early return.
DestroyUnknown(id) ==
    /\ lastCall' = [op |-> "destroyProfile", id |-> id, known |-> FALSE]
    /\ UNCHANGED <<gridVars, profiles, profSid, pm, surf, tasks, cleanup,
                   handed>>

\* getProfile(profileId): the page of the entry, or null.
GetProfile(id) ==
    /\ lastCall' = [op |-> "getProfile", id |-> id,
                    ret |-> IF id \in Range(profiles) THEN profSid[id] ELSE NULL]
    /\ UNCHANGED <<gridVars, profiles, profSid, pm, surf, tasks, cleanup,
                   handed>>

\* listProfiles(): the keys of _profiles.
ListProfiles ==
    /\ lastCall' = [op |-> "listProfiles", ret |-> profiles]
    /\ UNCHANGED <<gridVars, profiles, profSid, pm, surf, tasks, cleanup,
                   handed>>

\* destroyProfile(profileId), called by the application: a no-op for an
\* unknown id.
DestroyProfile(id) ==
    /\ IF id \notin Range(profiles)
       THEN DestroyUnknown(id)
       ELSE /\ UserTasks < MaxTasks
            /\ \E rmFails \in BOOLEAN, closeFails \in BOOLEAN :
                   DestroySync(id, "user", rmFails, closeFails)
            /\ UNCHANGED cleanup

\* ProfileManager.destroy leaves its try block, after the last of the three
\* clearing calls or through the catch: the entry is deleted and destroy
\* returns. The clearing calls touch the session's stored data only, which
\* no other step reads, so the awaits between them are not steps of their own.
ClearingDone(t) ==
    /\ t.pc = "clearing"
    /\ tasks' = (tasks (-) SetToBag({t})) (+) SetToBag({[t EXCEPT !.pc = "pmReturn"]})
    /\ pm' = PM_Delete(pm, t.id)
    /\ lastCall' = NoCall
    /\ UNCHANGED <<gridVars, profiles, profSid, surf, cleanup, handed>>

\* destroyProfile resumes after its await: the entry is deleted and, if
\* profiles remain, autoGrid() runs.
DestroyResume(t) ==
    /\ t.pc = "pmReturn"
    /\ LET id == t.id
           ps == Without(profiles, id)
           d == AutoGridDims(Len(gviews))
       IN /\ profiles' = ps
          /\ profSid' = MapDel(profSid, id)
          /\ handed' = MapDel(handed, id)
          /\ IF Len(ps) > 0
             THEN /\ cols' = d[1]
                  /\ rows' = d[2]
                  /\ maximizedId' = NULL
                  /\ vbounds' = ApplyLayout(gviews, d[1], d[2], NULL, win, vbounds)
                  /\ gop' = [op |-> "autoGrid", id |-> NULL]
                  /\ rt' = "none"
                  /\ pre' = [taken |-> FALSE, hidden |-> Overflowed]
             ELSE UNCHANGED <<cols, rows, maximizedId, vbounds, gop, rt, pre>>
          /\ surf' = Collect(surf, MapDel(profSid, id))
          /\ lastCall' = [op |-> "destroyReturn", id |-> id,
                          remaining |-> Len(ps),
                          before |-> <<cols, rows, maximizedId, vbounds>>]
    /\ tasks' = tasks (-) SetToBag({t})
    /\ UNCHANGED <<gviews, gsid, resizeSub, win, pm, cleanup>>

\* cleanup() is called: it takes the list of ids.
CleanupStart ==
    /\ cleanup.pc = "idle"
    /\ cleanup' = [pc |-> "running", ids |-> profiles, torn |-> 0]
    /\ lastCall' = NoCall
    /\ UNCHANGED <<gridVars, profiles, profSid, pm, surf, tasks, handed>>

\* A variant of the end of cleanup() that destroys the GridManager without
\* waiting for the loop to finish.
CleanupLoopDoneMut == TRUE

\* The loop of cleanup() has no id left.
CleanupLoopDone == cleanup.ids = <<>>

\* cleanup() goes on, at its start and after each awaited destroyProfile(id):
\* the next id is torn down, and when none is left the GridManager is destroyed.
CleanupStep ==
    /\ cleanup.pc = "running"
    /\ \A t \in Tasks : t.owner # "cleanup"
    /\ IF CleanupLoopDone
       THEN /\ resizeSub' = FALSE
            /\ gviews' = <<>>
            /\ gsid' = <<>>
            /\ vbounds' = <<>>
            /\ gop' = [op |-> "destroy", id |-> NULL]
            /\ rt' = "none"
            /\ pre' = NoSnap
            /\ cleanup' = [cleanup EXCEPT !.pc = "done"]
            /\ lastCall' = NoCall
            /\ UNCHANGED <<cols, rows, maximizedId, win, profiles, profSid, pm,
                           surf, tasks>>
       ELSE LET id == Head(cleanup.ids)
            IN IF id \in Range(profiles)
               THEN /\ \E rmFails \in BOOLEAN, closeFails \in BOOLEAN :
                           DestroySync(id, "cleanup", rmFails, closeFails)
                    /\ cleanup' = [cleanup EXCEPT !.ids = Tail(@),
                                                  !.torn = @ + 1]
               ELSE /\ cleanup' = [cleanup EXCEPT !.ids = Tail(@)]
                    /\ lastCall' = NoCall
                    /\ UNCHANGED <<gridVars, profiles, profSid, pm, surf, tasks>>
    /\ UNCHANGED handed

\* A feature operation of a page sends a protocol command: cdpSend attaches
\* the debugger of the content context when it is not attached. No feature
\* operation tests _destroyed, so a page that was destroyed attaches as well
\* as long as its content context is alive.
PageUseChannel(sid) ==
    /\ surf[sid].ctx = "alive"
    /\ ~surf[sid].chan
    /\ surf' = [surf EXCEPT ![sid].chan = TRUE]
    /\ lastCall' = NoCall
    /\ UNCHANGED <<gridVars, profiles, profSid, pm, tasks, cleanup, handed>>

(***************************************************************************)
(* SpecMgr: the BrowserManager with its ProfileManager and GridManager,    *)
(* under any interleaving of createProfile and destroyProfile calls, of    *)
(* the resumptions of the calls in flight and of feature operations        *)
(***************************************************************************)
MgrCreateProfile == \E id \in ProfileIds : CreateProfile(id) /\ UNCHANGED <<netVars, waitVars, pmVars, featVars>>
MgrDestroyProfile == \E id \in ProfileIds : DestroyProfile(id) /\ UNCHANGED <<netVars, waitVars, pmVars, featVars>>
MgrClearingDone == \E t \in Tasks : ClearingDone(t) /\ UNCHANGED <<netVars, waitVars, pmVars, featVars>>
MgrDestroyResume == \E t \in Tasks : DestroyResume(t) /\ UNCHANGED <<netVars, waitVars, pmVars, featVars>>
MgrUseChannel == \E sid \in DOMAIN surf : PageUseChannel(sid) /\ UNCHANGED <<netVars, waitVars, pmVars, featVars>>
MgrGetProfile == \E id \in ProfileIds : GetProfile(id) /\ UNCHANGED <<netVars, waitVars, pmVars, featVars>>
MgrListProfiles == ListProfiles /\ UNCHANGED <<netVars, waitVars, pmVars, featVars>>

NextMgr ==
    \/ MgrCreateProfile
    \/ MgrDestroyProfile
    \/ MgrClearingDone
    \/ MgrDestroyResume
    \/ MgrUseChannel
    \/ MgrGetProfile
    \/ MgrListProfiles

\* The window has one size throughout.
InitMgr == Init /\ win = <<10, 6>>

SpecMgr == InitMgr /\ [][NextMgr]_vars

(***************************************************************************)
(* SpecClean: createProfile and destroyProfile calls in any interleaving,  *)
(* followed by one cleanup(); the calls in flight when cleanup() starts    *)
(* resume while it runs                                                    *)
(***************************************************************************)
CleanCreateProfile == cleanup.pc = "idle" /\ MgrCreateProfile
CleanDestroyProfile == cleanup.pc = "idle" /\ MgrDestroyProfile
CleanCleanupStart == CleanupStart /\ UNCHANGED <<netVars, waitVars, pmVars, featVars>>
CleanCleanupStep == CleanupStep /\ UNCHANGED <<netVars, waitVars, pmVars, featVars>>

NextClean ==
    \/ CleanCreateProfile
    \/ CleanDestroyProfile
    \/ MgrClearingDone
    \/ MgrDestroyResume
    \/ CleanCleanupStart
    \/ CleanCleanupStep

SpecClean == InitMgr /\ [][NextClean]_vars

(***************************************************************************)
(* SpecNet: one page's Network and debugger, under any interleaving of its *)
(* calls, of their resumptions, of paused requests and of the page's       *)
(* destroy()                                                               *)
(***************************************************************************)
NetEnable == NetCall("enable") /\ UNCHANGED <<gridVars, mgrVars, waitVars, pmVars, featVars>>
NetBlockResourceTypes == NetCall("block") /\ UNCHANGED <<gridVars, mgrVars, waitVars, pmVars, featVars>>
NetInterceptRequests == NetCall("intercept") /\ UNCHANGED <<gridVars, mgrVars, waitVars, pmVars, featVars>>
NetLoadFinish == LoadFinish /\ UNCHANGED <<gridVars, mgrVars, waitVars, pmVars, featVars>>
NetOpResume == \E t \in NetOps : NetResume(t) /\ UNCHANGED <<gridVars, mgrVars, waitVars, pmVars, featVars>>
NetRequestPaused ==
    \E r \in RequestIds, blockCmd \in {"failRequest", "continueRequest"} :
        RequestPaused(r, blockCmd) /\ UNCHANGED <<gridVars, mgrVars, waitVars, pmVars, featVars>>
NetCallbackResume ==
    \E cb \in callbacks, outcome \in HandlerOutcomes :
        CallbackResume(cb, outcome) /\ UNCHANGED <<gridVars, mgrVars, waitVars, pmVars, featVars>>
NetDestroy == NetPageDestroy /\ UNCHANGED <<gridVars, mgrVars, waitVars, pmVars, featVars>>

NextNet ==
    \/ NetEnable
    \/ NetBlockResourceTypes
    \/ NetInterceptRequests
    \/ NetLoadFinish
    \/ NetOpResume
    \/ NetRequestPaused
    \/ NetCallbackResume
    \/ NetDestroy

SpecNet == InitMgr /\ [][NextNet]_vars

(***************************************************************************)
(* SpecGrid: the GridManager alone, any order of its operations            *)
(***************************************************************************)
GridAddView == \E id \in Ids : GM_AddView(id, id) /\ UNCHANGED <<mgrVars, netVars, waitVars, pmVars, featVars>>
GridRemoveView == \E id \in Ids : GM_RemoveView(id) /\ UNCHANGED <<mgrVars, netVars, waitVars, pmVars, featVars>>
GridSetGrid == \E c \in 0..MaxCols, r \in 0..MaxRows : GM_SetGrid(c, r) /\ UNCHANGED <<mgrVars, netVars, waitVars, pmVars, featVars>>
GridAutoGrid == GM_AutoGrid /\ UNCHANGED <<mgrVars, netVars, waitVars, pmVars, featVars>>
GridMaximize == \E id \in Ids : GM_Maximize(id) /\ UNCHANGED <<mgrVars, netVars, waitVars, pmVars, featVars>>
GridRestoreGrid == GM_RestoreGrid /\ UNCHANGED <<mgrVars, netVars, waitVars, pmVars, featVars>>
GridResize == \E w \in WinSizes : WinResize(w) /\ UNCHANGED <<mgrVars, netVars, waitVars, pmVars, featVars>>
GridDestroy == GM_Destroy /\ UNCHANGED <<mgrVars, netVars, waitVars, pmVars, featVars>>

NextGrid ==
    \/ GridAddView
    \/ GridRemoveView
    \/ GridSetGrid
    \/ GridAutoGrid
    \/ GridMaximize
    \/ GridRestoreGrid
    \/ GridResize
    \/ GridDestroy

SpecGrid == Init /\ [][NextGrid]_vars

(***************************************************************************)
(* SpecGridN: the GridManager with up to MaxViews views registered in      *)
(* order user1, user2, ...                                                 *)
(***************************************************************************)
GridAddNext ==
    /\ Len(gviews) < MaxViews
    /\ GM_AddView(Len(gviews) + 1, Len(gviews) + 1)
    /\ UNCHANGED <<mgrVars, netVars, waitVars, pmVars, featVars>>

GridMaximizeN == \E id \in BigIds : GM_Maximize(id) /\ UNCHANGED <<mgrVars, netVars, waitVars, pmVars, featVars>>

NextGridN ==
    \/ GridAddNext
    \/ GridAutoGrid
    \/ GridMaximizeN
    \/ GridRestoreGrid
    \/ GridResize

SpecGridN == Init /\ [][NextGridN]_vars

(***************************************************************************)
(* SpecGeom: the recomputes of the non-maximized layout, with up to        *)
(* MaxViews views and setGrid(cols, rows) for every grid of up to          *)
(* MaxCols x MaxRows cells                                                 *)
(***************************************************************************)
NextGeom ==
    \/ GridAddNext
    \/ GridAutoGrid
    \/ GridSetGrid
    \/ GridRestoreGrid
    \/ GridResize

SpecGeom == Init /\ [][NextGeom]_vars

(***************************************************************************)
(* One poll call                                                           *)
(***************************************************************************)
WaitPoll ==
    \E timeout \in 0..MaxTimeout, interval \in 1..MaxInterval :
        PollCall("poll", timeout, interval) /\ UNCHANGED pollOthers
WaitForSelector ==
    \E timeout \in 0..MaxTimeout :
        PollCall("waitForSelector", timeout, 1) /\ UNCHANGED pollOthers
WaitForFunction ==
    \E timeout \in 0..MaxTimeout :
        PollCall("waitForFunction", timeout, 1) /\ UNCHANGED pollOthers
WaitProbeSettle == \E o \in Outcomes : ProbeSettle(o) /\ UNCHANGED pollOthers
WaitSleepDone == SleepDone /\ UNCHANGED pollOthers
WaitPollTick == PollTick /\ UNCHANGED pollOthers

NextPoll ==
    \/ WaitPoll
    \/ WaitForSelector
    \/ WaitForFunction
    \/ WaitProbeSettle
    \/ WaitSleepDone
    \/ WaitPollTick

SpecPoll == InitMgr /\ [][NextPoll]_vars

\* The ProfileManager used on its own: create and destroy calls in any
\* interleaving, then one cleanup(), during which the calls in flight go on
\* and no new call is made.
SpecPM == InitMgr /\ [][NextPM]_vars

\* safeDetachDebugger calls on one content context, between attaches, and
\* after the context is destroyed.
SpecChan == InitMgr /\ [][NextChan]_vars

\* The interceptRequests listener: the requests paused under it, the
\* handler's answers and the debugger's answers to the listener's commands.
SpecIcpt == InitMgr /\ [][NextIcpt]_vars

\* One ElectronPage with its feature handlers, up to and after destroy().
SpecPage == InitMgr /\ [][NextPage]_vars

\* One ElectronPage: the operations of its features and its destroy().
SpecDetach == InitMgr /\ [][NextDetach]_vars

\* The three feature handlers under sequential enable() and disable() calls.
SpecSeq == InitMgr /\ [][NextSeq]_vars

\* The internal event callbacks, each run from the event to its end.
SpecEv == InitMgr /\ [][NextEv]_vars

\* One DownloadManager, the downloads of its session and their items.
SpecDl == InitMgr /\ [][NextDl]_vars

\* DialogHandler and Network on one debugger whose attach may fail.
SpecAttach == InitMgr /\ [][NextAttach]_vars

\* One DialogHandler: enable() and disable() calls in any interleaving, one
\* dialog of the page, and the handler's answers.
SpecDlg == InitMgr /\ [][NextDlg]_vars

\* One waitForNavigation call and the events of its page.
SpecNav == InitMgr /\ [][NextNav]_vars

\* One waitForNetworkIdle call and the events of its page.
SpecIdle == InitMgr /\ [][NextIdle]_vars

\* The same, with the event loop running the timers that are due, and with
\* time going on: no infinity of events occurs within one instant.
SpecIdleFair ==
    /\ SpecIdle
    /\ WF_vars(IdleQuietTimer)
    /\ WF_vars(IdleOuterTimer)
    /\ SF_vars(IdleTick)

(***************************************************************************)
(* Claims about the GridManager                                            *)
(***************************************************************************)
Rect(v) == <<v.x, v.y, v.width, v.height>>

ZeroSize(v) == v.width = 0 /\ v.height = 0

\* The documented autoGrid table, for n >= 1 tracked views.
DocumentedGrid(n) ==
    CASE n = 1 -> <<1, 1>>
      [] n = 2 -> <<2, 1>>
      [] n \in 3..4 -> <<2, 2>>
      [] n \in 5..6 -> <<3, 2>>
      [] n \in 7..9 -> <<3, 3>>
      [] n >= 10 -> <<5, 2>>

\* C7: right after autoGrid() with n >= 1 tracked views, (cols, rows) is the
\* documented table entry for n (1 -> 1x1, 2 -> 2x1, 3..4 -> 2x2, 5..6 -> 3x2,
\* 7..9 -> 3x3, 10 and more -> 5x2), maximizedId is cleared and every tracked
\* view has the bounds of a recompute.
Thm_C7 ==
    (gop.op = "autoGrid" /\ Len(gviews) >= 1) =>
        /\ <<cols, rows>> = DocumentedGrid(Len(gviews))
        /\ maximizedId = NULL
        /\ LayoutCurrent

\* autoGrid() has run with 15 views tracked and left a 5 x 2 grid.
Wit_C7 ==
    /\ gop.op = "autoGrid"
    /\ Len(gviews) = 15
    /\ <<cols, rows>> = <<5, 2>>

\* C8 as stated: after maximize(id) of a tracked id from any non-maximized
\* state, followed at once by restoreGrid(), cols, rows and every tracked
\* view's bounds are what they were before the maximize.
Orig_C8 ==
    (rt = "restored" /\ pre.tracked) =>
        /\ cols = pre.cols
        /\ rows = pre.rows
        /\ vbounds = pre.vbounds

\* C8 amended: the round trip maximize(id); restoreGrid() reproduces cols, rows
\* and every tracked view's bounds when it starts from a non-maximized state
\* whose layout is current, that is one where every tracked view has the
\* bounds of a recompute (no addView or removeView since the last one).
Thm_C8 ==
    (rt = "restored" /\ pre.current) =>
        /\ cols = pre.cols
        /\ rows = pre.rows
        /\ vbounds = pre.vbounds

\* A round trip from a current layout of two views with non-empty cells,
\* through the maximize of a tracked view.
Wit_C8 ==
    /\ rt = "restored"
    /\ pre.current
    /\ pre.tracked
    /\ Len(gviews) >= 2
    /\ \A id \in Range(gviews) : ~ZeroSize(vbounds[id])

\* The maximized layout: view m fills the canvas, every other tracked view
\* has zero-size bounds.
MaximizedLayout(m) ==
    /\ maximizedId = m
    /\ Rect(vbounds[m]) = <<0, 0, win[1], win[2]>>
    /\ \A o \in Range(gviews) \ {m} : ZeroSize(vbounds[o])

DocumentedCell(idx) ==
    <<(idx % cols) * (win[1] \div cols), (idx \div cols) * (win[2] \div rows),
      win[1] \div cols, win[2] \div rows>>

GridPlaced ==
    \A i \in 1..Len(gviews) :
        (i - 1 < cols * rows) => Rect(vbounds[gviews[i]]) = DocumentedCell(i - 1)

\* C10: right after setGrid, autoGrid, restoreGrid or a host-canvas resize in
\* a non-maximized state, the view at position idx < cols*rows (registration
\* order, from 0) has x = (idx mod cols)*cellW, y = floor(idx/cols)*cellH,
\* width = cellW, height = cellH with cellW = floor(canvasW/cols) and
\* cellH = floor(canvasH/rows); and a resize changes none of cols, rows,
\* maximizedId.
Thm_C10 ==
    /\ [](gop.op \in {"setGrid", "autoGrid", "restoreGrid", "resize"}
            /\ maximizedId = NULL => GridPlaced)
    /\ [][(\E w \in WinSizes : WinResize(w)) =>
            UNCHANGED <<cols, rows, maximizedId>>]_vars

\* A resize has just recomputed a 2-column grid in which the third view
\* sits in the second row, at a non-zero y.
Wit_C10 ==
    /\ gop.op = "resize"
    /\ maximizedId = NULL
    /\ cols = 2
    /\ rows = 2
    /\ Len(gviews) = 3
    /\ vbounds[gviews[3]].y > 0
    /\ vbounds[gviews[2]].x > 0

\* The view at position i (from 1) does not fit the grid.
Overflows(i) == i - 1 >= cols * rows

\* A recompute of the grid has just run in a non-maximized state.
GridRecomputed ==
    /\ gop.op \in {"setGrid", "autoGrid", "restoreGrid", "resize"}
    /\ maximizedId = NULL

\* Every view that does not fit is collapsed and still tracked; every view
\* that fits has the documented cell of the present grid, whatever the grid
\* before was.
OverflowCollapsed ==
    \A i \in 1..Len(gviews) :
        /\ gviews[i] \in DOMAIN vbounds
        /\ Overflows(i) => ZeroSize(vbounds[gviews[i]])
        /\ ~Overflows(i) => Rect(vbounds[gviews[i]]) = DocumentedCell(i - 1)

\* The views setGrid or autoGrid found collapsed for not fitting, and that
\* fit the grid it set.
Readmitted ==
    IF gop.op \in {"setGrid", "autoGrid"}
    THEN {id \in pre.hidden \cap Range(gviews) : ~Overflows(IndexOf(gviews, id))}
    ELSE {}

NonZeroCell(v) == v.width > 0 /\ v.height > 0

TeardownOrder ==
    <<"pageDestroy", "removeView", "removeBrowserView", "close",
      "sessionDestroy">>

KnownDestroy == lastCall.op = "destroyProfile" /\ lastCall.known

\* The surfaces of id that are not torn down and are attached to the window.
LiveSurfaces(id) ==
    {k \in DOMAIN surf : /\ surf[k].id = id
                         /\ ~surf[k].pageDestroyed
                         /\ surf[k].inWindow}

\* C1 as stated: every destroyProfile(id) call for a known id runs the five
\* teardown steps in the documented order, and the debugger is detached when
\* the step that closes the content context starts, also when the close or
\* removeBrowserView throws.
Orig_C1 ==
    KnownDestroy =>
        /\ [i \in 1..Len(lastCall.log) |-> lastCall.log[i].step] = TeardownOrder
        /\ ~lastCall.log[4].chan

\* C2 as stated: createProfile(id) for a registered id returns the handle the
\* creating call returned, and whatever createProfile and destroyProfile
\* calls were made, no id has more than one surface that is not torn down.
Orig_C2 ==
    /\ (lastCall.op = "createProfile" /\ ~lastCall.created)
           => lastCall.ret = handed[lastCall.id]
    /\ \A id \in ProfileIds : Cardinality(LiveSurfaces(id)) <= 1

Resolvers(r) == {reqs[r].cmds[i].reg : i \in 1..Len(reqs[r].cmds)}

\* C4: the debugger of a page has no or one attachment in every reachable
\* state, and a safeAttachDebugger call made while it is attached calls no
\* attach and returns true.
Thm_C4 ==
    /\ attachments \in {0, 1}
    /\ (lastAttach.called /\ lastAttach.was)
           => (~lastAttach.phys /\ lastAttach.ok)

\* A safeAttachDebugger call found the debugger attached, while another
\* Network call is in flight as well.
Wit_C4 ==
    /\ lastAttach.called
    /\ lastAttach.was
    /\ lastAttach.ok
    /\ attachments = 1
    /\ NetOpCount = 2

\* C5: at most one Fetch.requestPaused listener of the Network is registered
\* at any time, it is the one _onRequestPaused holds (an earlier one was
\* removed when it was added), and no paused request has commands from two
\* registrations.
Thm_C5 ==
    /\ Len(listeners) <= 1
    /\ \A l \in Range(listeners) : l.reg = onRequestPaused
    /\ \A r \in RequestIds : Cardinality(Resolvers(r)) <= 1

\* The second registration has replaced the first while a request paused
\* under the first still awaits its handler, and a request paused under the
\* second has its command.
Wit_C5 ==
    /\ Len(listeners) = 1
    /\ listeners[1].reg = 2
    /\ \E cb \in callbacks : cb.reg = 1
    /\ \E r \in RequestIds : Resolvers(r) = {2}

\* C6 as stated: a request that was delivered to the interceptRequests
\* listener has a continueRequest or failRequest command once the listener
\* call has run to its end, whatever the handler came back with.
Orig_C6 ==
    \A r \in RequestIds :
        (/\ reqs[r].paused
         /\ reqs[r].intercepted
         /\ \A cb \in callbacks : cb.req # r)
            => reqs[r].cmds # <<>>

(***************************************************************************)
(* Claims on poll                                                          *)
(***************************************************************************)
\* The attempts so far threw, all but the last, which gave a truthy value.
ThrewThenTruthy ==
    /\ pollSt.calls # <<>>
    /\ Truthy(pollSt.calls[Len(pollSt.calls)])
    /\ \A i \in 1..(Len(pollSt.calls) - 1) : pollSt.calls[i] = "throw"

\* C12 as stated: poll never rejects with the exception of an attempt, only
\* with the timeout error; and when the probe threw on its first K
\* invocations and then gave a truthy value v, poll has returned v.
Orig_C12 ==
    pollSt.kind = "poll" =>
        /\ pollSt.pc = "rejected" => pollSt.err = "timeout"
        /\ ThrewThenTruthy =>
               /\ pollSt.pc = "returned"
               /\ pollSt.res = pollSt.calls[Len(pollSt.calls)]

\* The positions of the attempts that gave a truthy value.
TruthyAttempts == {i \in 1..Len(pollSt.calls) : Truthy(pollSt.calls[i])}

\* C13 as stated: poll makes one attempt at a time, returns the value of the
\* first truthy attempt, which is then the last attempt made, never returns
\* a falsy value, and when no attempt was truthy it ends only by rejecting
\* with the timeout error, at a time when clock - start >= timeout.
Orig_C13 ==
    pollSt.kind = "poll" =>
        /\ pollSt.pc = "returned" =>
               /\ TruthyAttempts = {Len(pollSt.calls)}
               /\ pollSt.res = pollSt.calls[Len(pollSt.calls)]
               /\ Truthy(pollSt.res)
        /\ TruthyAttempts # {} => pollSt.pc = "returned"
        /\ pollSt.pc = "rejected" =>
               /\ TruthyAttempts = {}
               /\ pollSt.err = "timeout"
               /\ clock - pollSt.start >= pollSt.timeout

(***************************************************************************)
(* Claims on waitForNavigation                                             *)
(***************************************************************************)
NavSettled == navSt.pc \in {"resolved", "rejected"}

\* C14 as stated: once the promise of waitForNavigation is settled, by
\* whichever path, the call has removed each of its two listeners exactly
\* once and neither is subscribed any more.
Orig_C14 ==
    NavSettled =>
        /\ navSt.subs = {}
        /\ \A e \in NavEvents : navSt.removed[e] = 1

NavFirstIs(kind) == navSt.first[1] = kind

\* C15: waitForNavigation settles by the first of did-finish-load (resolves),
\* did-fail-load with code -3 (resolves), did-fail-load with another code
\* (rejects with an error carrying the description and the code) and the
\* timeout (resolves); it calls resolve or reject exactly once, and no later
\* event or timer changes the outcome.
Thm_C15 ==
    /\ [](/\ NavFirstIs("none") => navSt.pc \in {"idle", "waiting"} /\ navSt.settles = 0
          /\ ~NavFirstIs("none") => navSt.settles = 1
          /\ (NavFirstIs("finish") \/ NavFirstIs("timeout")) =>
                 navSt.pc = "resolved" /\ navSt.err = NoError
          /\ NavFirstIs("fail") =>
                 IF navSt.first[2] = -3
                 THEN navSt.pc = "resolved" /\ navSt.err = NoError
                 ELSE /\ navSt.pc = "rejected"
                      /\ navSt.err = <<navSt.first[3], navSt.first[2]>>)
    /\ [][NavSettled => UNCHANGED <<navSt.pc, navSt.err, navSt.settles>>]_vars

\* The wait was rejected by a failed load, and a did-finish-load and the end
\* of the time allowed came after it.
Wit_C15 ==
    /\ navSt.pc = "rejected"
    /\ navSt.err = <<"ERR_FAILED", -2>>
    /\ navSt.first = <<"fail", -2, "ERR_FAILED">>
    /\ clock > navSt.deadline
    /\ navSt.settles = 1

(***************************************************************************)
(* Claims on waitForNetworkIdle                                            *)
(***************************************************************************)
\* C16: once waitForNetworkIdle has settled, by the quiet timer or by the
\* outer timeout, none of its four listeners is subscribed and neither of
\* its timers is armed.
Thm_C16 ==
    idleSt.pc \in {"resolved", "rejected"} =>
        /\ idleSt.via \in {"quiet", "timeout"}
        /\ idleSt.subs = {}
        /\ ~idleSt.timer
        /\ ~idleSt.timeoutId

\* The wait ended by the outer timeout while a load was pending and the
\* quiet timer had been re-armed for a later time.
Wit_C16 ==
    /\ idleSt.pc = "resolved"
    /\ idleSt.via = "timeout"
    /\ idleSt.pending > 0
    /\ idleSt.tdeadline > idleSt.odeadline
    /\ idleSt.subs = {}

\* C17: for every sequence of events waitForNetworkIdle resolves, never
\* rejects, calls resolve at most once, is settled by the time the clock has
\* passed the outer timeout, and a wait in progress always ends.
Thm_C17 ==
    /\ [](/\ idleSt.pc # "rejected"
          /\ idleSt.settles = IF idleSt.pc = "resolved" THEN 1 ELSE 0
          /\ idleSt.pc = "waiting" => idleSt.timeoutId /\ clock <= idleSt.odeadline)
    /\ (idleSt.pc = "waiting" ~> idleSt.pc = "resolved")

\* The wait was resolved by the outer timeout, at its time, with loads still
\* pending after several events.
Wit_C17 ==
    /\ idleSt.pc = "resolved"
    /\ idleSt.via = "timeout"
    /\ idleSt.pending = MaxPending
    /\ clock = idleSt.odeadline
    /\ idleSt.odeadline > 0

(***************************************************************************)
(* Claims on the ProfileManager                                            *)
(***************************************************************************)
DestroyJustReturned == pmLast.op = "destroy" /\ pmLast.known

\* C18 as stated: a destroy(id) of a known id that has returned has made all
\* three clearing calls, whichever of them failed.
Orig_C18 ==
    DestroyJustReturned => pmLast.made = Len(SubSteps)

\* C19: when destroy(id) has returned, id is not in the registry, whichever
\* clearing call failed, and destroy did not raise; when cleanup() has
\* completed, the registry is empty.
Thm_C19 ==
    /\ pmLast.op = "destroy" => (pmLast.id \notin pm /\ ~pmLast.raised)
    /\ pmCleanup.pc = "done" => pm = {}

\* cleanup() has completed by a destroy whose second clearing call failed,
\* and the registry is empty.
Wit_C19 ==
    /\ pmCleanup.pc = "done"
    /\ DestroyJustReturned
    /\ pmLast.failed = 2
    /\ pm = {}

(***************************************************************************)
(* Claims on the layout of the BrowserManager                              *)
(***************************************************************************)
\* C20 as stated: after a createProfile that created id, the view it
\* returned is tracked under id and (cols, rows) is the autoGrid entry for
\* the number of tracked views, maximizedId cleared; after a destroyProfile(id)
\* that leaves a profile, id is not tracked and (cols, rows) is the autoGrid
\* entry for the number of tracked views, maximizedId cleared; after one
\* that leaves no profile, the layout is as it was before it returned.
Orig_C20 ==
    /\ (lastCall.op = "createProfile" /\ lastCall.created) =>
           /\ lastCall.id \in Range(gviews)
           /\ gsid[lastCall.id] = lastCall.ret
           /\ <<cols, rows>> = DocumentedGrid(Len(gviews))
           /\ maximizedId = NULL
    /\ (lastCall.op = "destroyReturn" /\ lastCall.remaining > 0) =>
           /\ lastCall.id \notin Range(gviews)
           /\ Len(gviews) >= 1 => <<cols, rows>> = DocumentedGrid(Len(gviews))
           /\ maximizedId = NULL
    /\ (lastCall.op = "destroyReturn" /\ lastCall.remaining = 0) =>
           <<cols, rows, maximizedId, vbounds>> = lastCall.before

(***************************************************************************)
(* Claims on the reads and no-ops of the BrowserManager                    *)
(***************************************************************************)
\* The registry of the BrowserManager, that of the ProfileManager, the
\* GridManager's tracked views and layout, and every view and page.
ManagedState ==
    <<profiles, profSid, pm, gviews, gsid, cols, rows, maximizedId, vbounds,
      surf, tasks>>

\* A step is a destroyProfile of an id that _profiles does not hold, a
\* getProfile or a listProfiles.
ReadOrNoOp ==
    \/ \E id \in ProfileIds : id \notin Range(profiles) /\ DestroyProfile(id)
    \/ \E id \in ProfileIds : GetProfile(id)
    \/ ListProfiles

\* C21: destroyProfile(id) for an id that is not in the profile registry,
\* getProfile and listProfiles leave the profile registry, the registry of
\* the ProfileManager, the tracked views, cols, rows, maximizedId and the
\* bounds of every view unchanged and raise nothing; getProfile returns the
\* page registered under the id or null, listProfiles the registered ids.
Thm_C21 ==
    /\ [][ReadOrNoOp => UNCHANGED ManagedState]_vars
    /\ [](/\ lastCall.op = "getProfile" =>
                 lastCall.ret = (IF lastCall.id \in Range(profiles)
                                 THEN profSid[lastCall.id] ELSE NULL)
          /\ lastCall.op = "listProfiles" => lastCall.ret = profiles)

\* destroyProfile has just returned for an id that is not registered, while
\* another profile is registered and laid out and the id itself is still
\* being torn down by an earlier call.
Wit_C21 ==
    /\ lastCall.op = "destroyProfile"
    /\ ~lastCall.known
    /\ Len(profiles) = 1
    /\ Len(gviews) = 1
    /\ \E t \in Tasks : t.id = lastCall.id

(***************************************************************************)
(* Claims on safeDetachDebugger                                            *)
(***************************************************************************)
\* C22: safeDetachDebugger never raises; called on an attached debugger it
\* issues detach() and leaves it detached; called on a detached debugger of
\* a live context it issues no detach(); called on a destroyed context, where
\* the query or the detach throws, it returns normally; and after any call
\* the debugger is detached.
Thm_C22 ==
    chanSt.last.called =>
        /\ ~chanSt.last.raised
        /\ ~chanSt.chan
        /\ (chanSt.last.ctx = "alive" /\ chanSt.last.was) =>
               chanSt.last.issued /\ ~chanSt.last.threw
        /\ (chanSt.last.ctx = "alive" /\ ~chanSt.last.was) =>
               ~chanSt.last.issued /\ ~chanSt.last.threw
        /\ chanSt.last.ctx = "destroyed" => chanSt.last.threw

\* A second safeDetachDebugger in a row on a live context found the debugger
\* detached by the first, after an attach.
Wit_C22 ==
    /\ chanSt.last.called
    /\ chanSt.last.ctx = "alive"
    /\ ~chanSt.last.was
    /\ chanSt.calls >= 2
    /\ chanSt.physical = 1

(***************************************************************************)
(* Claims on the DialogHandler                                             *)
(***************************************************************************)
KnownDialogTypes == {"alert", "confirm", "prompt", "beforeunload"}

\* C23 as stated: for a dialog whose type is none of alert, confirm, prompt,
\* beforeunload, every Page.handleJavaScriptDialog command that the handler's
\* own decision did not choose carries accept = false.
Orig_C23 ==
    (dialog.type \notin KnownDialogTypes \cup {"none"}) =>
        \A i \in 1..Len(dialog.cmds) :
            dialog.cmds[i].by # "handler" => ~dialog.cmds[i].accept

(***************************************************************************)
(* Claims on the interceptRequests listener                                *)
(***************************************************************************)
\* The chosen command of request record q was rejected.
ChosenRejected(q) ==
    \E i \in 1..Len(q.cmds) : q.cmds[i].by = "chosen" /\ ~q.cmds[i].ok

\* C24: when the handler threw, or the command chosen from its result was
\* rejected, the listener call issues a Fetch.continueRequest that carries
\* the requestId alone, before it ends; no listener call raises, also when
\* that command is rejected; and no command is issued for a request after a
\* command for it was accepted.
Thm_C24 ==
    \A r \in RequestIds :
        LET q == icp.reqs[r]
        IN /\ (q.st \in {"fallbackSent", "done"} /\ (q.threw \/ ChosenRejected(q)))
                  => \E i \in 1..Len(q.cmds) :
                         /\ q.cmds[i].by = "fallback"
                         /\ q.cmds[i].cmd = "continueRequest"
                         /\ q.cmds[i].bare
           /\ ~q.raised
           /\ \A i, j \in 1..Len(q.cmds) : i < j => ~q.cmds[i].ok

\* One request whose handler threw and whose fail-safe was rejected, and one
\* whose failRequest was rejected and whose fail-safe was accepted, both
\* listener calls at their end.
Wit_C24 ==
    \E r1, r2 \in RequestIds :
        /\ icp.reqs[r1].st = "done"
        /\ icp.reqs[r1].threw
        /\ Len(icp.reqs[r1].cmds) = 1
        /\ ~icp.reqs[r1].cmds[1].ok
        /\ icp.reqs[r2].st = "done"
        /\ Len(icp.reqs[r2].cmds) = 2
        /\ icp.reqs[r2].cmds[1].cmd = "failRequest"
        /\ ~icp.reqs[r2].cmds[1].ok
        /\ icp.reqs[r2].cmds[2].ok

DlgRegistration == <<dEnabled, dHandler, dOnDialog, dListeners>>

Retrievable == {id \in 1..dl.counter : DlGet(id) # "null"}

\* C27: the state of every DownloadRecord is one of progressing, completed,
\* cancelled, interrupted; a record made by a will-download event, accepted
\* or rejected, is there under its id at once and stays retrievable through
\* every later step (state changes, disable(), enable(), cancel()) except
\* destroy(), which removes every record; and a download that the accept
\* decision rejected is recorded with state cancelled.
Thm_C27 ==
    /\ [](/\ \A id \in 1..dl.counter :
                 /\ dl.downloads[id].state \in DownloadStates
                 /\ dl.downloads[id].rejected => dl.downloads[id].state = "cancelled"
          /\ dl.last.op = "willDownload" =>
                 /\ dl.last.id \in Retrievable
                 /\ ~dl.last.accept => DlGet(dl.last.id) = "cancelled"
          /\ dl.last.op = "destroy" => Retrievable = {})
    /\ [][dl'.last.op # "destroy" => Retrievable \subseteq Retrievable']_vars

\* A rejected download and an accepted one that has completed are both
\* retrievable after disable().
Wit_C27 ==
    /\ dl.last = [op |-> "disable", result |-> "disabled"]
    /\ dl.counter = 2
    /\ Retrievable = {1, 2}
    /\ dl.downloads[1].rejected
    /\ DlGet(1) = "cancelled"
    /\ DlGet(2) = "completed"

(***************************************************************************)
(* Claims on the internal event callbacks                                  *)
(***************************************************************************)
\* What the callback that has ended decided: the last command it issued, or
\* the decision it returned.
EvDecided ==
    CASE cbk.kind = "requestPaused" ->
             IF cbk.q.cmds = <<>> THEN "none"
             ELSE IF cbk.q.cmds[Len(cbk.q.cmds)].bare THEN cbk.q.cmds[Len(cbk.q.cmds)].cmd
             ELSE "modified"
      [] cbk.kind = "dialog" ->
             IF cbk.d.cmds = <<>> THEN "none"
             ELSE IF cbk.d.cmds[Len(cbk.d.cmds)].accept THEN "accept" ELSE "deny"
      [] OTHER -> cbk.decision

OneListenerIfEnabled ==
    /\ SeqIdle =>
           /\ Len(dListeners) = IF dEnabled THEN 1 ELSE 0
           /\ dEnabled => dListeners = <<dOnDialog>>
    /\ Len(dl.listeners) = IF dl.enabled THEN 1 ELSE 0
    /\ dl.enabled => dl.listeners[1].reg = dl.onWillDownload

\* C28 as stated: after any sequence of enable() and disable() calls, each
\* of DialogHandler, DownloadManager and Network has exactly one listener
\* registered if it is enabled and none if it is disabled.
Orig_C28 ==
    /\ OneListenerIfEnabled
    /\ SeqIdle => nw.listeners = IF nw.enabled THEN 1 ELSE 0

\* What enable() and disable() of each handler can change.
DlgHandlerState ==
    <<dAttached, dPageOn, dEnabled, dHandler, dOpts, dOnDialog, dListeners>>
DlHandlerState ==
    <<dl.enabled, dl.handler, dl.onWillDownload, dl.listeners, dl.downloads>>
NwHandlerState == <<dAttached, nw.enabled, nw.domain, nw.listeners>>

\* C28, amended: a disable() on a handler that is not enabled and an
\* enable() on one that is enabled return at once and change nothing (no
\* listener added, the options of the call not taken); between calls the
\* DialogHandler and the DownloadManager have exactly one listener when
\* enabled and none when disabled; enable() and disable() of the Network
\* add and remove no listener.
Thm_C28 ==
    /\ []OneListenerIfEnabled
    /\ [](nw.listeners = 0)
    /\ [][/\ (dLast'.result = "noop" /\ nw' = nw /\ dl' = dl) =>
               /\ UNCHANGED DlgHandlerState
               /\ dEnabled = (dLast'.op = "enable")
          /\ (/\ dl' # dl
              /\ dl'.last.op \in {"enable", "disable"}
              /\ dl'.last.result = "noop") =>
               /\ UNCHANGED DlHandlerState
               /\ dl.enabled = (dl'.last.op = "enable")
          /\ (nw' # nw /\ nw'.last.result = "noop") =>
               /\ UNCHANGED NwHandlerState
               /\ nw.enabled = (nw'.last.op = "enable")]_vars

\* All three handlers are enabled; the DialogHandler was enabled, disabled
\* and enabled again, and its last enable() call changed nothing; so did the
\* last enable() of the DownloadManager.
Wit_C28 ==
    /\ SeqIdle
    /\ dEnabled
    /\ dRegs = 2
    /\ dListeners = <<2>>
    /\ dLast.op = "enable"
    /\ dLast.result = "noop"
    /\ dl.enabled
    /\ dl.last = [op |-> "enable", result |-> "noop"]
    /\ nw.enabled

(***************************************************************************)
(* Claims on the DialogHandler under overlapping enable() calls            *)
(***************************************************************************)
\* C29 as stated: whatever the interleaving of enable() calls, at most one
\* dialog listener is registered on the debugger, so no dialog is answered
\* by more than one Page.handleJavaScriptDialog command, and when disable()
\* has returned no dialog listener is registered.
Orig_C29 ==
    /\ Len(dListeners) <= 1
    /\ Len(dialog.cmds) <= 1
    /\ dLast.op = "disable" => dListeners = <<>>

(***************************************************************************)
(* Claims on the teardown of a page's listeners                            *)
(***************************************************************************)
\* No call of the page is suspended at an await.
PageQuiet == dOps = EmptyBag /\ ~icp.pending /\ pg.fcOp.pc = "none"

\* C30 as stated: once destroy() of the page has completed, no listener of
\* its feature handlers remains: no Fetch.requestPaused listener, no dialog
\* listener and no file-chooser listener on the debugger, no will-download
\* listener on the session, no did-finish-load or render-process-gone
\* listener on the content context.
Orig_C30 ==
    pg.destroyed =>
        /\ ~icp.listener
        /\ dListeners = <<>>
        /\ pg.fcListeners = {}
        /\ dl.listeners = <<>>
        /\ ~pg.loadListeners

(***************************************************************************)
(* Claims on the detach of the debugger                                    *)
(***************************************************************************)
\* C31: the debugger is detached by no step other than destroy() of the
\* page (not by disable() of the Network, of the DialogHandler or of the
\* DownloadManager, not by stopInterceptFileChooser, not by
\* Network.destroy()), so on a page that is not destroyed an enabled
\* DialogHandler or Network has the debugger attached whatever was disabled
\* since.
Thm_C31 ==
    /\ [][(dAttached /\ ~dAttached') => (~pg.destroyed /\ pg'.destroyed)]_vars
    /\ [](~pg.destroyed => /\ dEnabled => dAttached
                           /\ nw.enabled => dAttached)

\* The Network has been disabled after it was enabled, the page is not
\* destroyed, and the DialogHandler is enabled on the attached debugger.
Wit_C31 ==
    /\ nw.last = [op |-> "disable", result |-> "disabled", tries |-> <<>>]
    /\ ~pg.destroyed
    /\ dEnabled
    /\ dAttached
    /\ dl.last = [op |-> "disable", result |-> "disabled"]

(***************************************************************************)
(* Claims on the pending counter and the quiet timer of waitForNetworkIdle *)
(***************************************************************************)
\* C32: the pending counter of waitForNetworkIdle is never negative: it is 0
\* when the wait starts, a start event the wait listens to adds 1 and leaves
\* no quiet timer armed, and a stop, finish or fail event the wait listens
\* to subtracts 1 and stops at 0.
Thm_C32 ==
    /\ [](idleSt.pending >= 0)
    /\ [][IdleWait => idleSt'.pending = 0]_vars
    /\ [][(IdleLoadStart /\ "did-start-loading" \in idleSt.subs)
            => (idleSt'.pending = idleSt.pending + 1 /\ ~idleSt'.timer)]_vars
    /\ [][(IdleLoadEnds /\ idleSt.subs = LoadEvents)
            => idleSt'.pending = (IF idleSt.pending = 0 THEN 0
                                  ELSE idleSt.pending - 1)]_vars

\* A start event has cancelled the quiet timer that was armed at the call,
\* and the wait goes on with one load pending.
Wit_C32 ==
    /\ idleSt.pc = "waiting"
    /\ idleSt.pending = 1
    /\ ~idleSt.timer
    /\ idleSt.idleTime > 0
    /\ idleSt.seen > 0

\* C33: a wait that the quiet timer resolved has a pending counter of 0, and
\* its listeners were called with no event during the idleTime before the
\* resolution.
Thm_C33 ==
    (idleSt.pc = "resolved" /\ idleSt.via = "quiet")
        => /\ idleSt.pending = 0
           /\ idleSt.at >= idleSt.seen + idleSt.idleTime

\* The quiet timer resolved a wait that had seen an event after the call.
Wit_C33 ==
    /\ idleSt.pc = "resolved"
    /\ idleSt.via = "quiet"
    /\ idleSt.seen > 0
    /\ idleSt.idleTime > 0
    /\ idleSt.at < idleSt.odeadline

\* C34: a wait that is not resolved and has a pending counter of 0 has its
\* quiet timer armed, due idleTime after the last event, and the quiet timer
\* that fires on a pending counter of 0 resolves the wait whatever the outer
\* timer does.
Thm_C34 ==
    /\ []((idleSt.pc = "waiting" /\ idleSt.pending = 0)
            => /\ idleSt.timer
               /\ idleSt.tdeadline = idleSt.seen + idleSt.idleTime)
    /\ [][(IdleQuietTimer /\ idleSt.pc = "waiting" /\ idleSt.pending = 0)
            => (idleSt'.pc = "resolved" /\ idleSt'.via = "quiet")]_vars

\* The counter came back to 0 after a load was pending, and the quiet timer
\* is armed again while the outer timer is still armed for later.
Wit_C34 ==
    /\ idleSt.pc = "waiting"
    /\ idleSt.pending = 0
    /\ idleSt.timer
    /\ idleSt.seen > 0
    /\ idleSt.tdeadline = idleSt.seen + idleSt.idleTime
    /\ idleSt.tdeadline < idleSt.odeadline

(***************************************************************************)
(* Claims on the channel after the teardown of the page                    *)
(***************************************************************************)
\* C35: once destroy() of the page has detached the debugger, no step
\* attaches it again and no step registers a listener on it: not a call made
\* after the teardown, and not a call that was suspended at an await when
\* destroy() ran and resumes afterwards.
Orig_C35 ==
    [][(pg.destroyed /\ ~dAttached)
         => /\ ~dAttached'
            /\ icp'.listener => icp.listener
            /\ Len(dListeners') <= Len(dListeners)
            /\ nw'.listeners <= nw.listeners
            /\ pg'.fcListeners \subseteq pg.fcListeners]_vars

(***************************************************************************)
(* Claims on the handles and the registries of the BrowserManager          *)
(***************************************************************************)
\* C36 as stated: the page that createProfile(id) or getProfile(id) returns
\* is not a destroyed page, also when a destroyProfile(id) is in flight; and
\* the id createProfile returned a page for is in _profiles and tracked by
\* the GridManager.
Orig_C36 ==
    /\ (lastCall.op \in {"createProfile", "getProfile"} /\ lastCall.ret # NULL)
           => ~surf[lastCall.ret].pageDestroyed
    /\ lastCall.op = "createProfile"
           => /\ lastCall.id \in Range(profiles)
              /\ lastCall.id \in Range(gviews)

\* C37 as stated: whenever no destroyProfile and no cleanup() is in flight
\* (createProfile is synchronous), _profiles of the BrowserManager, _profiles
\* of the ProfileManager and the views of the GridManager hold the same ids,
\* and each of these ids has exactly one surface in the window.
Orig_C37 ==
    (tasks = EmptyBag /\ cleanup.pc \in {"idle", "done"})
        => /\ Range(profiles) = pm
           /\ Range(gviews) = pm
           /\ \A id \in Range(profiles) :
                  Cardinality({k \in DOMAIN surf : /\ surf[k].id = id
                                                   /\ surf[k].inWindow}) = 1

(***************************************************************************)
(* Claims on the state and the geometry of the GridManager                 *)
(***************************************************************************)
\* _maximizedId is null or the id of a tracked view.
MaximizedTracked == maximizedId = NULL \/ maximizedId \in Range(gviews)

\* C38 as stated: after any sequence of addView, removeView, setGrid,
\* autoGrid, maximize, restoreGrid, resize and destroy, _maximizedId is null
\* or the id of a tracked view.
Orig_C38 == MaximizedTracked

\* Up to destroy() the same holds.
TrackedUntilDestroy == resizeSub => MaximizedTracked

\* The view has a cell: it is tracked at a position inside the grid.
HasCell(i) == i - 1 < cols * rows

\* The bounds lie inside the canvas.
InsideCanvas(v) ==
    /\ v.x >= 0
    /\ v.y >= 0
    /\ v.x + v.width <= win[1]
    /\ v.y + v.height <= win[2]

\* The two rectangles share no point of their interiors.
Disjoint(a, b) ==
    \/ a.x + a.width <= b.x
    \/ b.x + b.width <= a.x
    \/ a.y + a.height <= b.y
    \/ b.y + b.height <= a.y

\* C39: right after a recompute in a non-maximized layout with cols >= 1 and
\* rows >= 1, every view that has a cell lies inside the canvas and no two
\* views with a cell of non-zero width and height overlap; and after
\* autoGrid() with 1 to 10 views tracked cols * rows is at least the number
\* of views, so that every view has a cell.
Thm_C39 ==
    /\ (GridRecomputed /\ cols >= 1 /\ rows >= 1) =>
           /\ \A i \in 1..Len(gviews) :
                  HasCell(i) => InsideCanvas(vbounds[gviews[i]])
           /\ \A i, j \in 1..Len(gviews) :
                  (/\ i # j
                   /\ vbounds[gviews[i]].width * vbounds[gviews[i]].height > 0
                   /\ vbounds[gviews[j]].width * vbounds[gviews[j]].height > 0)
                      => Disjoint(vbounds[gviews[i]], vbounds[gviews[j]])
    /\ (gop.op = "autoGrid" /\ Len(gviews) \in 1..10) =>
           /\ cols * rows >= Len(gviews)
           /\ \A i \in 1..Len(gviews) : HasCell(i)

\* autoGrid() has laid out 10 views in a 5 x 2 grid on the wide canvas: the
\* last view has the cell in the bottom right corner, which ends at the
\* right and bottom edges of the canvas.
Wit_C39 ==
    /\ gop.op = "autoGrid"
    /\ maximizedId = NULL
    /\ Len(gviews) = 10
    /\ <<cols, rows>> = <<5, 2>>
    /\ vbounds[gviews[10]].x + vbounds[gviews[10]].width = win[1]
    /\ vbounds[gviews[10]].y + vbounds[gviews[10]].height = win[2]
    /\ vbounds[gviews[10]].width > 0

(***************************************************************************)
(* Claims on the interception of the file chooser                          *)
(***************************************************************************)
\* A call of listener r awaits its DOM.setFileInputFiles.
FcInFlight(r) == \E c \in BagToSet(pg.fcCalls) : c.reg = r

\* C40 as stated: a listener registered by interceptFileChooser without
\* persistent supplies files for one Page.fileChooserOpened at most, also
\* when the second event arrives before the first has been handled; once it
\* has handled its event it is removed, and the interception is off unless a
\* later registration switched it on again; and a persistent listener
\* supplies files for every event that arrives while it is registered.
Orig_C40 ==
    /\ [](\A r \in DOMAIN pg.fcLog :
            ~pg.fcLog[r].persistent =>
                /\ pg.fcLog[r].answered <= 1
                /\ (pg.fcLog[r].answered >= 1 /\ ~FcInFlight(r)) =>
                       /\ \A l \in pg.fcListeners : l.reg # r
                       /\ r = Len(pg.fcLog) => ~pg.fcOn)
    /\ [][PgFileChooserOpened =>
            \A l \in pg.fcListeners :
                l.persistent =>
                    pg'.fcLog[l.reg].answered = pg.fcLog[l.reg].answered + 1]_vars

====
